---- MODULE Spec2Model ----
(***************************************************************************)
(* naturedopes-cli: the configuration store (pkg/config) and the API       *)
(* client (pkg/api), modelled as state machines.                           *)
(*                                                                         *)
(* Strings are sequences of characters; a file is a sequence of the same   *)
(* characters plus the JSON punctuation, so that json.MarshalIndent and    *)
(* json.Unmarshal are modelled by what they write and parse.               *)
(***************************************************************************)
EXTENDS Integers, Sequences, FiniteSets, TLC

(***************************************************************************)
(* Bounds of the model.                                                    *)
(***************************************************************************)
\* longest string given to Set, to Save and to SearchImages
MaxLen == 1
\* largest image / user id given to the accessors
MaxId == 11

(***************************************************************************)
(* Characters.                                                             *)
(***************************************************************************)
\* the double quote, which JSON escapes as \"
DQ == "\""
\* the backslash
BS == "\\"
\* a byte that is not valid UTF-8 (0xFF)
XFF == "xFF"
\* the Unicode replacement rune U+FFFD, valid UTF-8 (EF BF BD)
UFFFD == "uFFFD"
\* the six bytes backslash u f f f d: the JSON escape of U+FFFD
ESC_FFFD == "\\ufffd"
\* the six bytes backslash u 0 0 2 6: the JSON escape of &
ESC_AMP == "\\u0026"
\* whitespace in a JSON text
WS == {"nl", "ind", "sp"}

\* the characters a string handed to the program is made of
Chars == {"a", DQ, XFF}

RECURSIVE SeqsUpTo(_, _)
SeqsUpTo(S, n) ==
  IF n = 0 THEN {<<>>}
  ELSE LET shorter == SeqsUpTo(S, n - 1)
       IN shorter \cup {Append(s, c) : s \in {t \in shorter : Len(t) = n - 1}, c \in S}

\* the strings the operations are called with
Strings == SeqsUpTo(Chars, MaxLen)

\* valid UTF-8: no invalid byte
ValidUTF8(s) == \A i \in 1..Len(s) : s[i] # XFF

\* every invalid byte replaced by U+FFFD, which is what
\* encoding/json does to a string on the way out and on the way in
ToValidUTF8(s) == [i \in 1..Len(s) |-> IF s[i] = XFF THEN UFFFD ELSE s[i]]

(***************************************************************************)
(* encoding/json: writing.                                                 *)
(***************************************************************************)
\* the bytes json writes for one character of a string
EscapeChar(c) ==
  CASE c = DQ  -> <<BS, DQ>>
    [] c = BS  -> <<BS, BS>>
    [] c = XFF -> <<ESC_FFFD>>
    [] c = "&" -> <<ESC_AMP>>
    [] OTHER   -> <<c>>

RECURSIVE EscapeFrom(_, _)
EscapeFrom(s, i) ==
  IF i > Len(s) THEN <<>> ELSE EscapeChar(s[i]) \o EscapeFrom(s, i + 1)

\* a Go string as a JSON string literal
Quote(s) == <<DQ>> \o EscapeFrom(s, 1) \o <<DQ>>

\* a bug: the string is written between quotes as it is
MarshalIndentRaw(config) ==
  <<"{", "nl", "ind", DQ, "api_url", DQ, ":", "sp", DQ>> \o config.ApiURL
    \o <<DQ, ",", "nl", "ind", DQ, "api_key", DQ, ":", "sp", DQ>> \o config.ApiKey
    \o <<DQ, "nl", "}">>

\* json.MarshalIndent(config, "", "  ") of a Config
MarshalIndent(config) ==
  <<"{", "nl", "ind", DQ, "api_url", DQ, ":", "sp">> \o Quote(config.ApiURL)
    \o <<",", "nl", "ind", DQ, "api_key", DQ, ":", "sp">> \o Quote(config.ApiKey)
    \o <<"nl", "}">>

(***************************************************************************)
(* encoding/json: reading.                                                 *)
(***************************************************************************)
\* F of the value of e, which is computed once
With(e, F(_)) == CHOOSE r \in {F(x) : x \in {e}} : TRUE

RECURSIVE SkipWs(_, _)
SkipWs(s, i) ==
  IF i <= Len(s) /\ s[i] \in WS THEN SkipWs(s, i + 1) ELSE i

\* the string literal whose opening quote is at i: the characters after
\* position j, given the characters acc read so far
RECURSIVE ScanString(_, _, _)
ScanString(s, j, acc) ==
  IF j > Len(s) THEN [ok |-> FALSE, val |-> <<>>, next |-> j]
  ELSE CASE s[j] = DQ -> [ok |-> TRUE, val |-> acc, next |-> j + 1]
         [] s[j] = BS ->
              IF j + 1 <= Len(s) /\ s[j + 1] \in {DQ, BS}
              THEN ScanString(s, j + 2, Append(acc, s[j + 1]))
              ELSE [ok |-> FALSE, val |-> <<>>, next |-> j]
         [] s[j] = ESC_FFFD -> ScanString(s, j + 1, Append(acc, UFFFD))
         [] s[j] = ESC_AMP -> ScanString(s, j + 1, Append(acc, "&"))
         [] s[j] = XFF -> ScanString(s, j + 1, Append(acc, UFFFD))
         [] s[j] = "nl" -> [ok |-> FALSE, val |-> <<>>, next |-> j]
         [] OTHER -> ScanString(s, j + 1, Append(acc, s[j]))

\* the decimal digits of a JSON number
DigitChars == {"0", "1", "2", "3", "4", "5", "6", "7", "8", "9"}

DigitValue(c) ==
  CASE c = "0" -> 0 [] c = "1" -> 1 [] c = "2" -> 2 [] c = "3" -> 3
    [] c = "4" -> 4 [] c = "5" -> 5 [] c = "6" -> 6 [] c = "7" -> 7
    [] c = "8" -> 8 [] c = "9" -> 9

\* the integer literal that starts at j: its digits from j on, given the
\* value n of the digits read so far
RECURSIVE ScanNumber(_, _, _)
ScanNumber(s, j, n) ==
  IF j <= Len(s) /\ s[j] \in DigitChars
  THEN ScanNumber(s, j + 1, 10 * n + DigitValue(s[j]))
  ELSE [val |-> n, next |-> j]

\* a member value or the top-level value at i: a string, null, true, false
\* or a number without sign, fraction and exponent (val is then <<n>>)
ParseValue(s, i) ==
  IF i > Len(s) THEN [ok |-> FALSE, kind |-> "none", val |-> <<>>, next |-> i]
  ELSE CASE s[i] = DQ ->
              LET r == ScanString(s, i + 1, <<>>)
              IN [ok |-> r.ok, kind |-> "string", val |-> r.val, next |-> r.next]
         [] s[i] = "null" -> [ok |-> TRUE, kind |-> "null", val |-> <<>>, next |-> i + 1]
         [] s[i] \in {"true", "false"} ->
              [ok |-> TRUE, kind |-> "bool", val |-> <<s[i]>>, next |-> i + 1]
         [] s[i] \in DigitChars ->
              With(ScanNumber(s, i, 0), LAMBDA r :
                [ok |-> s[i] # "0" \/ r.next = i + 1, kind |-> "number",
                 val |-> <<r.val>>, next |-> r.next])
         [] OTHER -> [ok |-> FALSE, kind |-> "none", val |-> <<>>, next |-> i]

BadMembers == [ok |-> FALSE, mem |-> <<>>, next |-> 0]

\* the members of an object from position i (after "{" or ","), added to
\* the members mem read so far; first says whether "}" may come at once
RECURSIVE ParseMembers(_, _, _, _)
ParseMembers(s, i, mem, first) ==
  With(SkipWs(s, i), LAMBDA k :
    IF k > Len(s) THEN BadMembers
    ELSE IF s[k] = "}"
    THEN (IF first THEN [ok |-> TRUE, mem |-> mem, next |-> k + 1] ELSE BadMembers)
    ELSE IF s[k] # DQ THEN BadMembers
    ELSE With(ScanString(s, k + 1, <<>>), LAMBDA key :
      With(SkipWs(s, key.next), LAMBDA c :
        IF ~key.ok \/ c > Len(s) \/ s[c] # ":" THEN BadMembers
        ELSE With(ParseValue(s, SkipWs(s, c + 1)), LAMBDA v :
          With(SkipWs(s, v.next), LAMBDA e :
            With(Append(mem, [key |-> key.val, kind |-> v.kind, val |-> v.val]),
                 LAMBDA m :
              IF ~v.ok \/ e > Len(s) THEN BadMembers
              ELSE IF s[e] = "}" THEN [ok |-> TRUE, mem |-> m, next |-> e + 1]
              ELSE IF s[e] = "," THEN ParseMembers(s, e + 1, m, FALSE)
              ELSE BadMembers))))))

\* the Config field a JSON key names (exact or case-insensitive match)
FieldOf(key) ==
  CASE key \in {<<"api_url">>, <<"API_URL">>} -> "ApiURL"
    [] key \in {<<"api_key">>, <<"API_KEY">>} -> "ApiKey"
    [] OTHER -> "none"

\* the members stored into a Config one after the other, a later one
\* overwriting an earlier one; null leaves the field, a number or a boolean
\* is a type error that leaves the field and is reported at the end
RECURSIVE StoreMembers(_, _, _)
StoreMembers(mem, i, acc) ==
  IF i > Len(mem) THEN acc
  ELSE LET m == mem[i]
           f == FieldOf(m.key)
       IN IF f = "none" \/ m.kind = "null" THEN StoreMembers(mem, i + 1, acc)
          ELSE IF m.kind \in {"number", "bool"}
          THEN StoreMembers(mem, i + 1, [acc EXCEPT !.err = "type"])
          ELSE StoreMembers(mem, i + 1, [acc EXCEPT !.cfg[f] = m.val])

ZeroConfig == [ApiURL |-> <<>>, ApiKey |-> <<>>]

\* json.Unmarshal(fileContent, &config) into a zero Config:
\* err is "none", "syntax" (invalid JSON) or "type" (valid JSON of the
\* wrong shape)
Unmarshal(s) ==
  LET bad == [err |-> "syntax", cfg |-> ZeroConfig]
  IN With(SkipWs(s, 1), LAMBDA i :
       IF i > Len(s) THEN bad
       ELSE IF s[i] = "{"
       THEN With(ParseMembers(s, i + 1, <<>>, TRUE), LAMBDA r :
              IF ~r.ok \/ SkipWs(s, r.next) <= Len(s) THEN bad
              ELSE StoreMembers(r.mem, 1, [err |-> "none", cfg |-> ZeroConfig]))
       ELSE With(ParseValue(s, i), LAMBDA v :
              IF ~v.ok \/ SkipWs(s, v.next) <= Len(s) THEN bad
              ELSE IF v.kind = "null" THEN [err |-> "none", cfg |-> ZeroConfig]
              ELSE [err |-> "type", cfg |-> ZeroConfig]))

(***************************************************************************)
(* State.                                                                  *)
(***************************************************************************)
VARIABLES
  home,     \* os.UserHomeDir() succeeds
  envUrl,   \* os.Getenv("API_URL"), <<>> when unset or empty
  envKey,   \* os.Getenv("API_KEY"), <<>> when unset or empty
  dir,      \* ~/.naturedopes-cli exists
  file,     \* ~/.naturedopes-cli/config.json: [exists, data]
  last,     \* the last call into pkg/config with its arguments and results
  perm,     \* the umask and the permission bits of the directory and the file
  procs,    \* two invocations of config set that run at the same time
  client,   \* the api.Client: [BaseUrl, APIKey]
  sent,     \* the HTTP requests the last accessor call handed to the transport
  resp,     \* what the transport answered to the last request
  ret       \* what the last accessor call returned: [call, err, data]

vars == <<home, envUrl, envKey, dir, file, last, perm, procs, client, sent, resp, ret>>
cfgVars == <<home, envUrl, envKey, dir, file, last>>
apiVars == <<client, sent, resp, ret>>

(***************************************************************************)
(* pkg/config.                                                             *)
(***************************************************************************)
\* the default base URL, one chunk of plain characters
LOCALHOST == <<"http://localhost:8080">>

NoFile == [exists |-> FALSE, data |-> <<>>]
FileOf(data) == [exists |-> TRUE, data |-> data]

\* the keys Set and Get are called with
Keys == {"api-url", "api-key", "bogus"}
\* the environments an invocation runs under: whether the home directory
\* is known, API_URL and API_KEY (<<>> when unset or empty)
Envs ==
  { [home |-> TRUE,  url |-> <<>>,    key |-> <<>>],
    [home |-> TRUE,  url |-> <<>>,    key |-> <<"a">>],
    [home |-> TRUE,  url |-> <<"a">>, key |-> <<XFF>>],
    [home |-> TRUE,  url |-> <<XFF>>, key |-> <<>>],
    [home |-> FALSE, url |-> <<"a">>, key |-> <<"a">>] }
\* the Config values Save is called with
Configs == [ApiURL : Strings, ApiKey : Strings]

\* an earlier revision: the default does not read the environment
LoadNoEnv(rdFail) ==
  IF ~home THEN [err |-> <<"couldn't get home directory">>, cfg |-> ZeroConfig]
  ELSE IF ~file.exists
  THEN [err |-> <<>>, cfg |-> [ApiURL |-> LOCALHOST, ApiKey |-> <<>>]]
  ELSE IF rdFail THEN [err |-> <<"couldn't read file">>, cfg |-> ZeroConfig]
  ELSE LET u == Unmarshal(file.data)
       IN IF u.err # "none"
          THEN [err |-> <<"couldn't unmarshal JSON">>, cfg |-> ZeroConfig]
          ELSE [err |-> <<>>, cfg |-> u.cfg]

\* a bug: a file that cannot be decoded is taken for the zero Config
LoadLenient(rdFail) ==
  IF ~home THEN [err |-> <<"couldn't get home directory">>, cfg |-> ZeroConfig]
  ELSE IF ~file.exists
  THEN [err |-> <<>>,
        cfg |-> [ApiURL |-> IF envUrl = <<>> THEN LOCALHOST ELSE envUrl,
                 ApiKey |-> envKey]]
  ELSE IF rdFail THEN [err |-> <<"couldn't read file">>, cfg |-> ZeroConfig]
  ELSE LET u == Unmarshal(file.data)
       IN IF u.err # "none"
          THEN [err |-> <<>>, cfg |-> ZeroConfig]
          ELSE [err |-> <<>>, cfg |-> u.cfg]

\* a bug: a variable of the environment that is set overrides the file
LoadEnvFirst(rdFail) ==
  IF ~home THEN [err |-> <<"couldn't get home directory">>, cfg |-> ZeroConfig]
  ELSE IF ~file.exists
  THEN [err |-> <<>>,
        cfg |-> [ApiURL |-> IF envUrl = <<>> THEN LOCALHOST ELSE envUrl,
                 ApiKey |-> envKey]]
  ELSE IF rdFail THEN [err |-> <<"couldn't read file">>, cfg |-> ZeroConfig]
  ELSE LET u == Unmarshal(file.data)
       IN IF u.err # "none"
          THEN [err |-> <<"couldn't unmarshal JSON">>, cfg |-> ZeroConfig]
          ELSE [err |-> <<>>,
                cfg |-> [ApiURL |-> IF envUrl = <<>> THEN u.cfg.ApiURL ELSE envUrl,
                         ApiKey |-> IF envKey = <<>> THEN u.cfg.ApiKey ELSE envKey]]

\* a bug: a field the file leaves empty is filled as when there is no file
LoadFillsDefaults(rdFail) ==
  IF ~home THEN [err |-> <<"couldn't get home directory">>, cfg |-> ZeroConfig]
  ELSE IF ~file.exists
  THEN [err |-> <<>>,
        cfg |-> [ApiURL |-> IF envUrl = <<>> THEN LOCALHOST ELSE envUrl,
                 ApiKey |-> envKey]]
  ELSE IF rdFail THEN [err |-> <<"couldn't read file">>, cfg |-> ZeroConfig]
  ELSE LET u == Unmarshal(file.data)
       IN IF u.err # "none"
          THEN [err |-> <<"couldn't unmarshal JSON">>, cfg |-> ZeroConfig]
          ELSE [err |-> <<>>,
                cfg |-> [ApiURL |-> IF u.cfg.ApiURL # <<>> THEN u.cfg.ApiURL
                                    ELSE IF envUrl = <<>> THEN LOCALHOST ELSE envUrl,
                         ApiKey |-> IF u.cfg.ApiKey # <<>> THEN u.cfg.ApiKey
                                    ELSE envKey]]

\* Load(): the Config and the error it returns; rdFail says whether
\* os.ReadFile fails on the existing file
Load(rdFail) ==
  IF ~home THEN [err |-> <<"couldn't get home directory">>, cfg |-> ZeroConfig]
  ELSE IF ~file.exists
  THEN [err |-> <<>>,
        cfg |-> [ApiURL |-> IF envUrl = <<>> THEN LOCALHOST ELSE envUrl,
                 ApiKey |-> envKey]]
  ELSE IF rdFail THEN [err |-> <<"couldn't read file">>, cfg |-> ZeroConfig]
  ELSE LET u == Unmarshal(file.data)
       IN IF u.err # "none"
          THEN [err |-> <<"couldn't unmarshal JSON">>, cfg |-> ZeroConfig]
          ELSE [err |-> <<>>, cfg |-> u.cfg]

\* the ways os.MkdirAll and os.WriteFile fail: the directory cannot be
\* created, the file cannot be opened, or the write stops (the disk is
\* full, the process is killed) after the file was truncated and before a
\* byte was written ("empty") or after the first TruncAt bytes of the data
\* were written ("trunc")
Faults == {"none", "mkdir", "open", "empty", "trunc"}

\* the failures os.ReadFile can meet: none when there is no file to read
ReadFaults == IF file.exists THEN BOOLEAN ELSE {FALSE}
\* the failures Save can meet: os.MkdirAll succeeds on an existing directory
SaveFaults == IF dir THEN Faults \ {"mkdir"} ELSE Faults

\* the bytes up to the value of "api_url"
TruncAt == 8

\* a bug that is not there: the write that stops has written all the bytes
PrefixAll(data, n) == data

Prefix(data, n) == SubSeq(data, 1, n)

\* config.Save(): the error it returns and the directory and file it leaves
Save(config, fault) ==
  LET data == MarshalIndent(config)
  IN IF ~home
     THEN [err |-> <<"couldn't get home directory">>, dir |-> dir, file |-> file]
     ELSE IF fault = "mkdir" /\ ~dir
     THEN [err |-> <<"could not create directory">>, dir |-> dir, file |-> file]
     ELSE IF fault = "open"
     THEN [err |-> <<"could not write data to file">>, dir |-> TRUE, file |-> file]
     ELSE IF fault = "empty"
     THEN [err |-> <<"could not write data to file">>, dir |-> TRUE,
           file |-> FileOf(<<>>)]
     ELSE IF fault = "trunc"
     THEN [err |-> <<"could not write data to file">>, dir |-> TRUE,
           file |-> FileOf(Prefix(data, TruncAt))]
     ELSE [err |-> <<>>, dir |-> TRUE, file |-> FileOf(data)]

\* permission bits: u, g, o for the owner, the group and the others, with
\* r, w, x
Mode0755 == {"ur", "uw", "ux", "gr", "gx", "or", "ox"}
Mode0644 == {"ur", "uw", "gr", "or"}
Mode0600 == {"ur", "uw"}
\* the umask of the process: 022 or 077
Umask022 == {"gw", "ow"}
Umask077 == {"gr", "gw", "gx", "or", "ow", "ox"}

\* another choice of mode: the file is created with 0600
ModesAfterOwnerOnly(newDir, newFile) ==
  [umask |-> perm.umask,
   dir   |-> IF ~dir /\ newDir THEN Mode0755 \ perm.umask ELSE perm.dir,
   file  |-> IF ~file.exists /\ newFile.exists
             THEN Mode0600 \ perm.umask ELSE perm.file]

\* the permission bits after a call that leaves the directory newDir and
\* the file newFile: os.MkdirAll(configDir, 0755) and os.WriteFile(path,
\* data, 0644) set the bits, less the umask, of what they create and leave
\* the bits of what is there already
ModesAfter(newDir, newFile) ==
  [umask |-> perm.umask,
   dir   |-> IF ~dir /\ newDir THEN Mode0755 \ perm.umask ELSE perm.dir,
   file  |-> IF ~file.exists /\ newFile.exists
             THEN Mode0644 \ perm.umask ELSE perm.file]

\* fmt.Errorf("msg: %w", err): the message in front of the wrapped chain
Wrap(msg, err) == <<msg>> \o err

\* what a call follows: a Save that succeeded ("save"), a Set of the same
\* key and value that succeeded ("same set"), or anything else ("other")
After(op, key, value) ==
  IF last.err # <<>> THEN "other"
  ELSE IF last.op = "Save" THEN "save"
  ELSE IF last.op = "Set" /\ op = "Set" /\ last.key = key /\ last.value = value
  THEN "same set"
  ELSE "other"

\* the record of a call: its key, the error, the string (Get) and the
\* Config (Load) it returned and, for a call that succeeded, the value
\* (Set) and the Config (Save) it was given
Call(op, key, value, arg, err, retv, cfg) ==
  [op |-> op, key |-> key,
   value |-> IF err = <<>> THEN value ELSE <<>>,
   arg |-> IF err = <<>> THEN arg ELSE ZeroConfig,
   err |-> err, ret |-> retv, cfg |-> cfg, after |-> After(op, key, value)]

NoCall == [op |-> "none", key |-> "", value |-> <<>>, arg |-> ZeroConfig,
           err |-> <<>>, ret |-> <<>>, cfg |-> ZeroConfig, after |-> "other"]

\* a call of Load() (config list)
DoLoad ==
  \E rdFail \in ReadFaults :
    LET l == Load(rdFail)
    IN /\ last' = Call("Load", "", <<>>, ZeroConfig, l.err, <<>>, l.cfg)
       /\ UNCHANGED <<home, envUrl, envKey, dir, file, perm>>
       /\ UNCHANGED <<apiVars, procs>>

\* a call of config.Save(); a Save that fails leaves the same directory
\* and file whatever the Config, which is then taken to be the zero Config
DoSave ==
  \E fault \in SaveFaults :
  \E config \in IF fault = "none" THEN Configs ELSE {ZeroConfig} :
    LET s == Save(config, fault)
    IN /\ dir' = s.dir
       /\ file' = s.file
       /\ last' = Call("Save", "", <<>>, config, s.err, <<>>, ZeroConfig)
       /\ perm' = ModesAfter(s.dir, s.file)
       /\ UNCHANGED <<home, envUrl, envKey>>
       /\ UNCHANGED <<apiVars, procs>>

\* a bug: the key is not checked and any other key is taken for api-key
SetAnyKey(key, value, rdFail, fault) ==
  LET l == Load(rdFail)
  IN IF l.err # <<>>
     THEN [err |-> Wrap("could not load config file", l.err),
           dir |-> dir, file |-> file]
     ELSE LET config == IF key = "api-url" THEN [l.cfg EXCEPT !.ApiURL = value]
                        ELSE [l.cfg EXCEPT !.ApiKey = value]
              s == Save(config, fault)
          IN [err |-> IF s.err = <<>> THEN <<>>
                      ELSE Wrap("could not save config file", s.err),
              dir |-> s.dir, file |-> s.file]

\* a bug: the Config that is saved holds the named field alone
SetFieldOnly(key, value, rdFail, fault) ==
  LET l == Load(rdFail)
  IN IF l.err # <<>>
     THEN [err |-> Wrap("could not load config file", l.err),
           dir |-> dir, file |-> file]
     ELSE IF key \notin {"api-url", "api-key"}
     THEN [err |-> <<"invalid key", key>>, dir |-> dir, file |-> file]
     ELSE LET config == IF key = "api-url" THEN [ZeroConfig EXCEPT !.ApiURL = value]
                        ELSE [ZeroConfig EXCEPT !.ApiKey = value]
              s == Save(config, fault)
          IN [err |-> IF s.err = <<>> THEN <<>>
                      ELSE Wrap("could not save config file", s.err),
              dir |-> s.dir, file |-> s.file]

\* a bug: the value is appended to the field instead of replacing it
SetAppend(key, value, rdFail, fault) ==
  LET l == Load(rdFail)
  IN IF l.err # <<>>
     THEN [err |-> Wrap("could not load config file", l.err),
           dir |-> dir, file |-> file]
     ELSE IF key \notin {"api-url", "api-key"}
     THEN [err |-> <<"invalid key", key>>, dir |-> dir, file |-> file]
     ELSE LET config == IF key = "api-url"
                        THEN [l.cfg EXCEPT !.ApiURL = l.cfg.ApiURL \o value]
                        ELSE [l.cfg EXCEPT !.ApiKey = l.cfg.ApiKey \o value]
              s == Save(config, fault)
          IN [err |-> IF s.err = <<>> THEN <<>>
                      ELSE Wrap("could not save config file", s.err),
              dir |-> s.dir, file |-> s.file]

\* Set(key, value): the error it returns and the directory and file it
\* leaves
Set(key, value, rdFail, fault) ==
  LET l == Load(rdFail)
  IN IF l.err # <<>>
     THEN [err |-> Wrap("could not load config file", l.err),
           dir |-> dir, file |-> file]
     ELSE IF key \notin {"api-url", "api-key"}
     THEN [err |-> <<"invalid key", key>>, dir |-> dir, file |-> file]
     ELSE LET config == IF key = "api-url" THEN [l.cfg EXCEPT !.ApiURL = value]
                        ELSE [l.cfg EXCEPT !.ApiKey = value]
              s == Save(config, fault)
          IN [err |-> IF s.err = <<>> THEN <<>>
                      ELSE Wrap("could not save config file", s.err),
              dir |-> s.dir, file |-> s.file]

\* a bug: Get writes the Config it loaded back to the file
GetPersists(key, rdFail) ==
  LET l == Load(rdFail)
  IN IF l.err # <<>>
     THEN [err |-> Wrap("could not load config file", l.err), ret |-> <<>>,
           dir |-> dir, file |-> file]
     ELSE LET s == Save(l.cfg, "none")
          IN CASE key = "api-url" ->
                    [err |-> <<>>, ret |-> l.cfg.ApiURL,
                     dir |-> s.dir, file |-> s.file]
               [] key = "api-key" ->
                    [err |-> <<>>, ret |-> l.cfg.ApiKey,
                     dir |-> s.dir, file |-> s.file]
               [] OTHER ->
                    [err |-> <<"invalid key", key>>, ret |-> <<>>,
                     dir |-> s.dir, file |-> s.file]

\* another order: the key is looked at before the file is loaded
GetKeyFirst(key, rdFail) ==
  LET l == Load(rdFail)
  IN IF key \notin {"api-url", "api-key"}
     THEN [err |-> <<"invalid key", key>>, ret |-> <<>>,
           dir |-> dir, file |-> file]
     ELSE IF l.err # <<>>
     THEN [err |-> Wrap("could not load config file", l.err), ret |-> <<>>,
           dir |-> dir, file |-> file]
     ELSE [err |-> <<>>,
           ret |-> IF key = "api-url" THEN l.cfg.ApiURL ELSE l.cfg.ApiKey,
           dir |-> dir, file |-> file]

\* Get(key): the string and the error it returns, and the directory and
\* file it leaves
Get(key, rdFail) ==
  LET l == Load(rdFail)
  IN IF l.err # <<>>
     THEN [err |-> Wrap("could not load config file", l.err), ret |-> <<>>,
           dir |-> dir, file |-> file]
     ELSE CASE key = "api-url" ->
                 [err |-> <<>>, ret |-> l.cfg.ApiURL,
                  dir |-> dir, file |-> file]
            [] key = "api-key" ->
                 [err |-> <<>>, ret |-> l.cfg.ApiKey,
                  dir |-> dir, file |-> file]
            [] OTHER ->
                 [err |-> <<"invalid key", key>>, ret |-> <<>>,
                  dir |-> dir, file |-> file]

\* a call of Set (config set <key> <value>); a Set that fails leaves the
\* same directory and file whatever the value, which is then taken to be ""
DoSet ==
  \E key \in Keys, rdFail \in ReadFaults :
  \E fault \in IF rdFail \/ key = "bogus" THEN {"none"} ELSE SaveFaults :
  \E value \in IF rdFail \/ key = "bogus" \/ fault # "none" THEN {<<>>} ELSE Strings :
    LET r == Set(key, value, rdFail, fault)
    IN /\ dir' = r.dir
       /\ file' = r.file
       /\ last' = Call("Set", key, value, ZeroConfig, r.err, <<>>, ZeroConfig)
       /\ perm' = ModesAfter(r.dir, r.file)
       /\ UNCHANGED <<home, envUrl, envKey>>
       /\ UNCHANGED <<apiVars, procs>>

\* a call of Get (config get <key>)
DoGet ==
  \E key \in Keys, rdFail \in ReadFaults :
    LET r == Get(key, rdFail)
    IN /\ dir' = r.dir
       /\ file' = r.file
       /\ last' = Call("Get", key, <<>>, ZeroConfig, r.err, r.ret, ZeroConfig)
       /\ perm' = ModesAfter(r.dir, r.file)
       /\ UNCHANGED <<home, envUrl, envKey>>
       /\ UNCHANGED <<apiVars, procs>>

\* the next invocation of the program runs under another environment
NewEnv ==
  \E e \in Envs :
    /\ <<e.home, e.url, e.key>> # <<home, envUrl, envKey>>
    /\ home' = e.home
    /\ envUrl' = e.url
    /\ envKey' = e.key
    /\ last' = NoCall
    /\ UNCHANGED <<dir, file, perm>>
    /\ UNCHANGED <<apiVars, procs>>

\* config files found on disk that no Save of this model wrote
FoundFiles ==
  { <<>>,
    <<"a">>,
    <<"null">>,
    <<"{", "}">>,
    <<"{", DQ, "api_key", DQ, ":", DQ, "a", DQ, "}">>,
    <<"{", DQ, "API_URL", DQ, ":", DQ, "a", DQ, ",",
           DQ, "other", DQ, ":", "5", "}", "nl">>,
    <<"{", DQ, "api_url", DQ, ":", "5", ",",
           DQ, "api_key", DQ, ":", DQ, "a", DQ, "}">>,
    <<"{", DQ, "api_url", DQ, ":", DQ, XFF, DQ, ",",
           DQ, "api_key", DQ, ":", "null", "}">>,
    MarshalIndent([ApiURL |-> <<"a">>, ApiKey |-> <<"a">>]) }

(***************************************************************************)
(* pkg/api: the client.                                                    *)
(***************************************************************************)
\* the base URLs a client is built with; http.NewRequest cannot parse BadBase
GoodBase == <<"http://x">>
BadBase == <<":bad">>
BaseUrls == {GoodBase, BadBase}
\* the API keys a client is built with
ApiKeys == {<<>>, <<"k">>, <<DQ>>}

\* the characters of a species name, of a key name and of a key
TextChars == {"a", " ", "&"}
Texts == SeqsUpTo(TextChars, MaxLen)
\* the image and user ids
Ids == {-1, 0, 1, MaxId}

\* strconv.Itoa and the %d verb
Digit(d) == CASE d = 0 -> "0" [] d = 1 -> "1" [] d = 2 -> "2" [] d = 3 -> "3"
              [] d = 4 -> "4" [] d = 5 -> "5" [] d = 6 -> "6" [] d = 7 -> "7"
              [] d = 8 -> "8" [] d = 9 -> "9"

RECURSIVE Digits(_)
Digits(n) == IF n < 10 THEN <<Digit(n)>> ELSE Append(Digits(n \div 10), Digit(n % 10))

Itoa(n) == IF n < 0 THEN <<"-">> \o Digits(0 - n) ELSE Digits(n)

\* url.QueryEscape of one character
QueryEscapeChar(c) ==
  CASE c = " " -> <<"+">>
    [] c = "&" -> <<"%", "2", "6">>
    [] c = "=" -> <<"%", "3", "D">>
    [] c = "?" -> <<"%", "3", "F">>
    [] c = "+" -> <<"%", "2", "B">>
    [] c = "%" -> <<"%", "2", "5">>
    [] OTHER   -> <<c>>

RECURSIVE QueryEscapeFrom(_, _)
QueryEscapeFrom(s, i) ==
  IF i > Len(s) THEN <<>> ELSE QueryEscapeChar(s[i]) \o QueryEscapeFrom(s, i + 1)

QueryEscape(s) == QueryEscapeFrom(s, 1)

\* the keys url.Values.Encode can meet, in the order it sorts them
SortedKeys == <<"species", "species_name", "user_id">>

\* url.Values.Encode(): key=value of every key of params, sorted by key and
\* joined by &; params is a function from keys to values
RECURSIVE EncodeFrom(_, _, _)
EncodeFrom(params, i, first) ==
  IF i > Len(SortedKeys) THEN <<>>
  ELSE LET k == SortedKeys[i]
       IN IF k \in DOMAIN params
          THEN (IF first THEN <<>> ELSE <<"&">>)
                 \o <<k, "=">> \o QueryEscape(params[k])
                 \o EncodeFrom(params, i + 1, FALSE)
          ELSE EncodeFrom(params, i + 1, first)

Encode(params) == EncodeFrom(params, 1, TRUE)

\* params.Add(key, value) on a url.Values without that key
Add(params, key, value) ==
  [k \in DOMAIN params \cup {key} |-> IF k = key THEN value ELSE params[k]]

NoParams == [k \in {} |-> <<>>]

\* an earlier revision: the species is sent as "species"
SearchPathSpecies(species, userID) ==
  LET p1 == IF species # <<>> THEN Add(NoParams, "species", species) ELSE NoParams
      p2 == IF userID > 0 THEN Add(p1, "user_id", Itoa(userID)) ELSE p1
  IN IF DOMAIN p2 # {} THEN <<"/images", "?">> \o Encode(p2) ELSE <<"/images">>

\* SearchImages: the path it hands to doRequest
SearchPath(species, userID) ==
  LET p1 == IF species # <<>> THEN Add(NoParams, "species_name", species) ELSE NoParams
      p2 == IF userID > 0 THEN Add(p1, "user_id", Itoa(userID)) ELSE p1
  IN IF DOMAIN p2 # {} THEN <<"/images", "?">> \o Encode(p2) ELSE <<"/images">>

\* json.Marshal of a struct with one string field
MarshalField(name, value) == <<"{", DQ, name, DQ, ":">> \o Quote(value) \o <<"}">>

\* a request body: nil, or the bytes of a []byte that is not nil
NilBody == [nil |-> TRUE, bytes |-> <<>>]
Bytes(b) == [nil |-> FALSE, bytes |-> b]

\* the accessor calls: the accessor and its arguments
Calls ==
  {[name |-> "ListImages", text |-> <<>>, id |-> 0]}
    \cup {[name |-> "GetImage", text |-> <<>>, id |-> i] : i \in Ids}
    \cup {[name |-> "SearchImages", text |-> t, id |-> i] : t \in Texts, i \in Ids}
    \cup {[name |-> "GenerateKey", text |-> t, id |-> 0] : t \in Texts}
    \cup {[name |-> "ListKeys", text |-> <<>>, id |-> 0]}
    \cup {[name |-> "GetKeyInfo", text |-> t, id |-> 0] : t \in Texts}
    \cup {[name |-> "RevokeKey", text |-> <<>>, id |-> 0]}

\* a bug: GenerateKey names the field of its body as GetKeyInfo does
ArgsOfKeyField(call) ==
  CASE call.name = "ListImages" ->
         [method |-> "GET", path |-> <<"/images">>, body |-> NilBody]
    [] call.name = "GetImage" ->
         [method |-> "GET", path |-> <<"/images/">> \o Itoa(call.id), body |-> NilBody]
    [] call.name = "SearchImages" ->
         [method |-> "GET", path |-> SearchPath(call.text, call.id), body |-> NilBody]
    [] call.name = "GenerateKey" ->
         [method |-> "POST", path |-> <<"/api/keys">>,
          body |-> Bytes(MarshalField("api-key", call.text))]
    [] call.name = "ListKeys" ->
         [method |-> "GET", path |-> <<"/api/keys/list">>, body |-> NilBody]
    [] call.name = "GetKeyInfo" ->
         [method |-> "GET", path |-> <<"/api/keys/get">>,
          body |-> Bytes(MarshalField("api-key", call.text))]
    [] call.name = "RevokeKey" ->
         [method |-> "DELETE", path |-> <<"/api/keys">>, body |-> NilBody]

\* a slip: GetKeyInfo, which has a body, is sent as a POST
ArgsOfPostInfo(call) ==
  CASE call.name = "ListImages" ->
         [method |-> "GET", path |-> <<"/images">>, body |-> NilBody]
    [] call.name = "GetImage" ->
         [method |-> "GET", path |-> <<"/images/">> \o Itoa(call.id), body |-> NilBody]
    [] call.name = "SearchImages" ->
         [method |-> "GET", path |-> SearchPath(call.text, call.id), body |-> NilBody]
    [] call.name = "GenerateKey" ->
         [method |-> "POST", path |-> <<"/api/keys">>,
          body |-> Bytes(MarshalField("name", call.text))]
    [] call.name = "ListKeys" ->
         [method |-> "GET", path |-> <<"/api/keys/list">>, body |-> NilBody]
    [] call.name = "GetKeyInfo" ->
         [method |-> "POST", path |-> <<"/api/keys/get">>,
          body |-> Bytes(MarshalField("api-key", call.text))]
    [] call.name = "RevokeKey" ->
         [method |-> "DELETE", path |-> <<"/api/keys">>, body |-> NilBody]

\* the method, path and body an accessor hands to doRequest
ArgsOf(call) ==
  CASE call.name = "ListImages" ->
         [method |-> "GET", path |-> <<"/images">>, body |-> NilBody]
    [] call.name = "GetImage" ->
         [method |-> "GET", path |-> <<"/images/">> \o Itoa(call.id), body |-> NilBody]
    [] call.name = "SearchImages" ->
         [method |-> "GET", path |-> SearchPath(call.text, call.id), body |-> NilBody]
    [] call.name = "GenerateKey" ->
         [method |-> "POST", path |-> <<"/api/keys">>,
          body |-> Bytes(MarshalField("name", call.text))]
    [] call.name = "ListKeys" ->
         [method |-> "GET", path |-> <<"/api/keys/list">>, body |-> NilBody]
    [] call.name = "GetKeyInfo" ->
         [method |-> "GET", path |-> <<"/api/keys/get">>,
          body |-> Bytes(MarshalField("api-key", call.text))]
    [] call.name = "RevokeKey" ->
         [method |-> "DELETE", path |-> <<"/api/keys">>, body |-> NilBody]

\* the message an accessor puts in front of the error of doRequest
ErrorOf(call) ==
  CASE call.name = "ListImages" -> "could not retrieve images"
    [] call.name = "GetImage" -> "could not obtain image"
    [] call.name = "SearchImages" -> "could  not search images"
    [] call.name = "GenerateKey" -> "could not create api keys from naturedopesApi"
    [] call.name = "ListKeys" -> "could not get apikeys"
    [] call.name = "GetKeyInfo" -> "could not get api key"
    [] call.name = "RevokeKey" -> "could not delete api-key"

\* the message an accessor puts in front of the error of json.Unmarshal
DecodeErrorOf(call) ==
  CASE call.name = "ListImages" -> "could not unmarshall to json"
    [] call.name = "GetImage" -> "could not unmarshall to json"
    [] call.name = "SearchImages" -> "could not read response from server"
    [] call.name = "GenerateKey" -> "could not unmarshal response"
    [] call.name = "ListKeys" -> "could not unmarshall json"
    [] call.name = "GetKeyInfo" -> "could not unmarshal response"
    [] call.name = "RevokeKey" -> "none"

\* a bug: RevokeKey decodes the response as the accessors of one key do
TargetOfRevokeDecodes(call) ==
  CASE call.name \in {"ListImages", "SearchImages", "ListKeys"} -> "slice"
    [] call.name = "GetImage" -> "struct"
    [] call.name \in {"GenerateKey", "GetKeyInfo", "RevokeKey"} -> "ApiKey"

\* what an accessor decodes the response into: a slice, an Image
\* ("struct"), an ApiKey, nothing
TargetOf(call) ==
  CASE call.name \in {"ListImages", "SearchImages", "ListKeys"} -> "slice"
    [] call.name = "GetImage" -> "struct"
    [] call.name \in {"GenerateKey", "GetKeyInfo"} -> "ApiKey"
    [] call.name = "RevokeKey" -> "none"

\* a bug: the key is sent whether it is empty or not
HeaderAlwaysKey(c, body) ==
  (IF ~body.nil THEN {<<"Content-Type", <<"application/json">>>>} ELSE {})
    \cup {<<"X-API-Key", c.APIKey>>}

\* a bug: Content-Type is set by the length of the body, not by body != nil
HeaderByLength(c, body) ==
  (IF body.bytes # <<>> THEN {<<"Content-Type", <<"application/json">>>>} ELSE {})
    \cup (IF c.APIKey # <<>> THEN {<<"X-API-Key", c.APIKey>>} ELSE {})

\* doRequest: the header of the request, as name and value pairs
Header(c, body) ==
  (IF ~body.nil THEN {<<"Content-Type", <<"application/json">>>>} ELSE {})
    \cup (IF c.APIKey # <<>> THEN {<<"X-API-Key", c.APIKey>>} ELSE {})

\* doRequest: http.NewRequest fails on a URL it cannot parse
BadURL(url) == Len(url) > 0 /\ url[1] = BadBase[1]

\* doRequest: the request it hands to HTTPClient.Do
Request(c, method, path, body) ==
  [method |-> method, url |-> c.BaseUrl \o path, body |-> body,
   header |-> Header(c, body)]

\* the status codes of the responses the transport delivers: a 3xx is
\* delivered when it is not one the transport follows
Statuses == {200, 204, 300, 399, 400, 404, 500}
\* a *string: nil, or a pointer to a string
NilString == [nil |-> TRUE, val |-> <<>>]
StringPtr(s) == [nil |-> FALSE, val |-> s]

\* the keys the service answers with
SentKeys ==
  { [ID |-> 5, Key |-> <<"k">>, Name |-> <<"a">>, CreatedAt |-> <<"t">>,
     ExpiresAt |-> <<"u">>, LastUsed |-> NilString, Revoked |-> FALSE],
    [ID |-> 12, Key |-> <<DQ>>, Name |-> <<"&">>, CreatedAt |-> <<>>,
     ExpiresAt |-> <<"u">>, LastUsed |-> NilString, Revoked |-> TRUE],
    [ID |-> 5, Key |-> <<"k">>, Name |-> <<"a">>, CreatedAt |-> <<"t">>,
     ExpiresAt |-> <<"u">>, LastUsed |-> StringPtr(<<"t">>), Revoked |-> FALSE] }

\* an ApiKey as the service writes it
KeyJSON(k) ==
  <<"{", DQ, "id", DQ, ":">> \o Itoa(k.ID)
    \o <<",", DQ, "key", DQ, ":">> \o Quote(k.Key)
    \o <<",", DQ, "name", DQ, ":">> \o Quote(k.Name)
    \o <<",", DQ, "created_at", DQ, ":">> \o Quote(k.CreatedAt)
    \o <<",", DQ, "expires_at", DQ, ":">> \o Quote(k.ExpiresAt)
    \o <<",", DQ, "last_used", DQ, ":">>
    \o (IF k.LastUsed.nil THEN <<"null">> ELSE Quote(k.LastUsed.val))
    \o <<",", DQ, "revoked", DQ, ":", IF k.Revoked THEN "true" ELSE "false", "}">>

\* the response bodies: empty, null, a JSON array, a JSON object, text, the
\* keys of the service and an object whose id is a string
Bodies == {<<>>, <<"null">>, <<"[", "]">>, <<"[", "obj", ",", "obj", "]">>,
           <<"obj">>, <<"not found">>,
           <<"{", DQ, "id", DQ, ":", DQ, "a", DQ, ",",
                  DQ, "last_used", DQ, ":", "null", "}">>}
            \cup {KeyJSON(k) : k \in SentKeys}

\* what HTTPClient.Do and io.ReadAll end with: no response, a response
\* whose body cannot be read, a response
Outcomes ==
  {[kind |-> "neterr", status |-> 0, body |-> <<>>]}
    \cup {[kind |-> "readerr", status |-> st, body |-> <<>>] : st \in Statuses}
    \cup {[kind |-> "resp", status |-> st, body |-> b] : st \in Statuses, b \in Bodies}

\* a bug: only the 5xx are errors
ClassifyServerErrors(out) ==
  IF out.kind = "neterr"
  THEN [err |-> <<"could not send request err", "transport">>, body |-> <<>>]
  ELSE IF out.kind = "readerr"
  THEN [err |-> <<"failed to read response, err", "read">>, body |-> <<>>]
  ELSE IF out.status >= 500
  THEN [err |-> <<"returned status code: ">> \o Itoa(out.status)
                  \o <<" , message: ">> \o out.body \o <<" ">>,
        body |-> <<>>]
  ELSE [err |-> <<>>, body |-> out.body]

\* a bug: the error message leaves the response body out
ClassifyNoBody(out) ==
  IF out.kind = "neterr"
  THEN [err |-> <<"could not send request err", "transport">>, body |-> <<>>]
  ELSE IF out.kind = "readerr"
  THEN [err |-> <<"failed to read response, err", "read">>, body |-> <<>>]
  ELSE IF out.status >= 400
  THEN [err |-> <<"returned status code: ">> \o Itoa(out.status), body |-> <<>>]
  ELSE [err |-> <<>>, body |-> out.body]

\* doRequest from HTTPClient.Do on: the bytes and the error it returns
Classify(out) ==
  IF out.kind = "neterr"
  THEN [err |-> <<"could not send request err", "transport">>, body |-> <<>>]
  ELSE IF out.kind = "readerr"
  THEN [err |-> <<"failed to read response, err", "read">>, body |-> <<>>]
  ELSE IF out.status >= 400
  THEN [err |-> <<"returned status code: ">> \o Itoa(out.status)
                  \o <<" , message: ">> \o out.body \o <<" ">>,
        body |-> <<>>]
  ELSE [err |-> <<>>, body |-> out.body]

\* a key of the service, one character a chunk: 9 bytes
LongKey == <<"n", "d", "_", "a", "a", "a", "a", "a", "a">>
\* the objects of a response that stand for themselves: "obj", none of
\* whose keys names a field, and "keyobj", whose one member is "key" with
\* the value LongKey
ObjTokens == {"obj", "keyobj"}

\* the elements of a JSON array of objects from position i on
RECURSIVE ArrayItems(_, _, _)
ArrayItems(b, i, acc) ==
  IF i > Len(b) \/ b[i] \notin ObjTokens THEN [ok |-> FALSE, items |-> <<>>]
  ELSE IF i + 1 = Len(b) /\ b[i + 1] = "]" THEN [ok |-> TRUE, items |-> Append(acc, b[i])]
  ELSE IF i + 1 < Len(b) /\ b[i + 1] = "," THEN ArrayItems(b, i + 2, Append(acc, b[i]))
  ELSE [ok |-> FALSE, items |-> <<>>]

\* models.ApiKey and models.Image as var declares them
ZeroApiKey ==
  [ID |-> 0, Key |-> <<>>, Name |-> <<>>, CreatedAt |-> <<>>, ExpiresAt |-> <<>>,
   LastUsed |-> NilString, Revoked |-> FALSE]
ZeroImage ==
  [ID |-> 0, SpeciesName |-> <<>>, GpsLong |-> 0, GpsLat |-> 0, ImagePath |-> <<>>,
   UserID |-> 0]

NoField == [field |-> "none", type |-> "none"]

\* the field of models.ApiKey a JSON key names, and its Go type
ApiKeyField(key) ==
  CASE key \in {<<"id">>, <<"ID">>} -> [field |-> "ID", type |-> "int"]
    [] key = <<"key">> -> [field |-> "Key", type |-> "string"]
    [] key = <<"name">> -> [field |-> "Name", type |-> "string"]
    [] key = <<"created_at">> -> [field |-> "CreatedAt", type |-> "string"]
    [] key = <<"expires_at">> -> [field |-> "ExpiresAt", type |-> "string"]
    [] key = <<"last_used">> -> [field |-> "LastUsed", type |-> "*string"]
    [] key = <<"revoked">> -> [field |-> "Revoked", type |-> "bool"]
    [] OTHER -> NoField

\* the field of models.Image a JSON key names, and its Go type
ImageField(key) ==
  CASE key \in {<<"id">>, <<"ID">>} -> [field |-> "ID", type |-> "int"]
    [] key = <<"species_name">> -> [field |-> "SpeciesName", type |-> "string"]
    [] key = <<"gps_long">> -> [field |-> "GpsLong", type |-> "float64"]
    [] key = <<"gps_lat">> -> [field |-> "GpsLat", type |-> "float64"]
    [] key = <<"image_path">> -> [field |-> "ImagePath", type |-> "string"]
    [] key = <<"user_id">> -> [field |-> "UserID", type |-> "int"]
    [] OTHER -> NoField

\* the members of a JSON object stored into a struct one after the other:
\* a key that names no field is skipped, null makes a pointer nil and
\* leaves any other field, a value of the wrong JSON type leaves the field
\* and makes the call fail at its end
RECURSIVE StoreFields(_, _, _, _)
StoreFields(mem, i, acc, target) ==
  IF i > Len(mem) THEN acc
  ELSE LET m == mem[i]
           f == IF target = "ApiKey" THEN ApiKeyField(m.key) ELSE ImageField(m.key)
       IN IF f.field = "none" THEN StoreFields(mem, i + 1, acc, target)
          ELSE IF m.kind = "null"
          THEN (IF f.type = "*string"
                THEN StoreFields(mem, i + 1, [acc EXCEPT !.val[f.field] = NilString], target)
                ELSE StoreFields(mem, i + 1, acc, target))
          ELSE IF f.type = "string" /\ m.kind = "string"
          THEN StoreFields(mem, i + 1, [acc EXCEPT !.val[f.field] = m.val], target)
          ELSE IF f.type = "*string" /\ m.kind = "string"
          THEN StoreFields(mem, i + 1, [acc EXCEPT !.val[f.field] = StringPtr(m.val)], target)
          ELSE IF f.type \in {"int", "float64"} /\ m.kind = "number"
          THEN StoreFields(mem, i + 1, [acc EXCEPT !.val[f.field] = m.val[1]], target)
          ELSE IF f.type = "bool" /\ m.kind = "bool"
          THEN StoreFields(mem, i + 1,
                           [acc EXCEPT !.val[f.field] = (m.val = <<"true">>)], target)
          ELSE StoreFields(mem, i + 1, [acc EXCEPT !.ok = FALSE], target)

\* json.Unmarshal(resp, &v) for a zero struct v, an ApiKey or an Image:
\* whether it succeeds and the struct it leaves; the token "obj" is an
\* object none of whose keys names a field
UnmarshalStruct(b, target) ==
  LET zero == IF target = "ApiKey" THEN ZeroApiKey ELSE ZeroImage
      bad  == [ok |-> FALSE, val |-> zero]
  IN IF b = <<"obj">> THEN [ok |-> TRUE, val |-> zero]
     ELSE IF b = <<"keyobj">>
     THEN [ok |-> TRUE,
           val |-> IF target = "ApiKey" THEN [zero EXCEPT !.Key = LongKey] ELSE zero]
     ELSE With(SkipWs(b, 1), LAMBDA i :
       IF i > Len(b) THEN bad
       ELSE IF b[i] = "{"
       THEN With(ParseMembers(b, i + 1, <<>>, TRUE), LAMBDA r :
              IF ~r.ok \/ SkipWs(b, r.next) <= Len(b) THEN bad
              ELSE StoreFields(r.mem, 1, [ok |-> TRUE, val |-> zero], target))
       ELSE With(ParseValue(b, i), LAMBDA v :
              IF v.ok /\ v.kind = "null" /\ SkipWs(b, v.next) > Len(b)
              THEN [ok |-> TRUE, val |-> zero]
              ELSE bad))

\* json.Unmarshal(resp, &v) for a slice or a struct v: whether it succeeds
\* and the records it yields
Decode(b, target) ==
  LET bad == [ok |-> FALSE, items |-> <<>>]
  IN IF target \in {"struct", "ApiKey"}
     THEN With(UnmarshalStruct(b, target), LAMBDA u :
            IF u.ok THEN [ok |-> TRUE, items |-> <<u.val>>] ELSE bad)
     ELSE IF b = <<"null">> THEN [ok |-> TRUE, items |-> <<>>]
     ELSE IF Len(b) < 2 \/ b[1] # "[" THEN bad
     ELSE IF b = <<"[", "]">> THEN [ok |-> TRUE, items |-> <<>>]
     ELSE ArrayItems(b, 2, <<>>)

\* a bug: the error of doRequest is replaced by the accessor's message
FinishHidesCause(call, r) ==
  IF r.err # <<>> THEN [err |-> <<ErrorOf(call)>>, data |-> <<>>]
  ELSE IF TargetOf(call) = "none" THEN [err |-> <<>>, data |-> <<>>]
  ELSE LET d == Decode(r.body, TargetOf(call))
       IN IF ~d.ok THEN [err |-> Wrap(DecodeErrorOf(call), <<"json">>), data |-> <<>>]
          ELSE [err |-> <<>>, data |-> d.items]

\* an accessor from the return of doRequest on: the error and the data it
\* returns
Finish(call, r) ==
  IF r.err # <<>> THEN [err |-> Wrap(ErrorOf(call), r.err), data |-> <<>>]
  ELSE IF TargetOf(call) = "none" THEN [err |-> <<>>, data |-> <<>>]
  ELSE LET d == Decode(r.body, TargetOf(call))
       IN IF ~d.ok THEN [err |-> Wrap(DecodeErrorOf(call), <<"json">>), data |-> <<>>]
          ELSE [err |-> <<>>, data |-> d.items]

NoCallYet == [name |-> "none", text |-> <<>>, id |-> 0]

NoClient == [BaseUrl |-> <<>>, APIKey |-> <<>>]
NoResp == [kind |-> "none", status |-> 0, body |-> <<>>]
NoExec == [err |-> <<>>, body |-> <<>>]
\* the accessor call in progress or last made: where it stands, what
\* doRequest returned to it (exec) and what it returned
NoRet == [call |-> NoCallYet, stage |-> "idle", exec |-> NoExec, err |-> <<>>,
          data |-> <<>>]

\* api.NewClient(baseUrl, key)
NewClient ==
  \E b \in BaseUrls, k \in ApiKeys :
    /\ ret.stage # "waiting"
    /\ client' = [BaseUrl |-> b, APIKey |-> k]
    /\ sent' = <<>>
    /\ resp' = NoResp
    /\ ret' = NoRet
    /\ UNCHANGED <<cfgVars, perm, procs>>

\* an accessor is called and runs up to HTTPClient.Do: it returns at once
\* when http.NewRequest fails, and else waits for the transport
Invoke ==
  \E call \in Calls :
    LET a == ArgsOf(call)
    IN /\ ret.stage # "waiting"
       /\ client # NoClient
       /\ resp' = NoResp
       /\ IF BadURL(client.BaseUrl \o a.path)
          THEN /\ sent' = <<>>
               /\ LET r == [err |-> <<"could not create http request err", "parse">>,
                            body |-> <<>>]
                  IN ret' = [call |-> call, stage |-> "done", exec |-> r,
                             err |-> Finish(call, r).err, data |-> <<>>]
          ELSE /\ sent' = <<Request(client, a.method, a.path, a.body)>>
               /\ ret' = [call |-> call, stage |-> "waiting", exec |-> NoExec,
                          err |-> <<>>, data |-> <<>>]
       /\ UNCHANGED client
       /\ UNCHANGED <<cfgVars, perm, procs>>

\* a bug: the key is dropped from the client when the service refuses it
RespondDropsKey ==
  \E out \in Outcomes :
    LET r == Classify(out)
        f == Finish(ret.call, r)
    IN /\ ret.stage = "waiting"
       /\ resp' = out
       /\ ret' = [ret EXCEPT !.stage = "done", !.exec = r, !.err = f.err,
                             !.data = f.data]
       /\ client' = IF out.kind = "resp" /\ out.status >= 400
                    THEN [client EXCEPT !.APIKey = <<>>] ELSE client
       /\ UNCHANGED sent
       /\ UNCHANGED <<cfgVars, perm, procs>>

\* a bug: after a transport failure the request is sent once more
RespondRetry ==
  \E out \in Outcomes :
    LET r == Classify(out)
        f == Finish(ret.call, r)
    IN /\ ret.stage = "waiting"
       /\ resp' = out
       /\ IF out.kind = "neterr" /\ Len(sent) < 2
          THEN /\ sent' = Append(sent, sent[1])
               /\ ret' = ret
          ELSE /\ sent' = sent
               /\ ret' = [ret EXCEPT !.stage = "done", !.exec = r, !.err = f.err,
                                     !.data = f.data]
       /\ UNCHANGED client
       /\ UNCHANGED <<cfgVars, perm, procs>>

\* HTTPClient.Do returns and the accessor runs to its end
Respond ==
  \E out \in Outcomes :
    LET r == Classify(out)
        f == Finish(ret.call, r)
    IN /\ ret.stage = "waiting"
       /\ resp' = out
       /\ ret' = [ret EXCEPT !.stage = "done", !.exec = r, !.err = f.err,
                             !.data = f.data]
       /\ UNCHANGED <<client, sent>>
       /\ UNCHANGED <<cfgVars, perm, procs>>

\* the methods, paths and bodies doRequest is called with directly: a body
\* is nil, a []byte of length 0 or a []byte holding JSON
Methods == {"GET", "POST", "DELETE"}
Paths == {<<"/images">>, <<"/api/keys">>}
ExecBodies == {NilBody, Bytes(<<>>), Bytes(<<"{", "}">>)}

\* what the transport answers to a direct call
ExecOutcomes ==
  {out \in Outcomes : out.body \in {<<>>, <<"not found">>} /\ out.status \in {0, 200, 300, 404}}

DirectCall == [name |-> "doRequest", text |-> <<>>, id |-> 0]

\* a call of doRequest(method, path, body) by itself, from its first line to
\* its return
DoRequest ==
  \E method \in Methods, path \in Paths, body \in ExecBodies :
  \E out \in IF BadURL(client.BaseUrl \o path) THEN {NoResp} ELSE ExecOutcomes :
    LET r == IF BadURL(client.BaseUrl \o path)
             THEN [err |-> <<"could not create http request err", "parse">>,
                   body |-> <<>>]
             ELSE Classify(out)
    IN /\ client # NoClient
       /\ ret.stage # "waiting"
       /\ sent' = IF BadURL(client.BaseUrl \o path) THEN <<>>
                  ELSE <<Request(client, method, path, body)>>
       /\ resp' = out
       /\ ret' = [call |-> DirectCall, stage |-> "done", exec |-> r,
                  err |-> r.err, data |-> <<>>]
       /\ UNCHANGED client
       /\ UNCHANGED <<cfgVars, perm, procs>>

\* no invocation of config set is running
NoProcs == <<>>

(***************************************************************************)
(* Two invocations of config set at the same time: each runs Set, that     *)
(* is Load and then Save, whose os.MkdirAll and os.WriteFile (open with    *)
(* O_TRUNC, write, close) are steps of their own.                          *)
(***************************************************************************)
Procs == {1, 2}

Other(p) == 3 - p

\* another slip: the Config that is written holds the named field alone
SetFieldAlone(cfg, key, value) ==
  IF key = "api-url" THEN [ZeroConfig EXCEPT !.ApiURL = value]
  ELSE [ZeroConfig EXCEPT !.ApiKey = value]

\* Set: the Config it saves, for a key it recognizes
SetField(cfg, key, value) ==
  IF key = "api-url" THEN [cfg EXCEPT !.ApiURL = value]
  ELSE [cfg EXCEPT !.ApiKey = value]

\* write(2) of data at offset 0 of a file that holds old
WriteAt0(old, data) == data \o SubSeq(old, Len(data) + 1, Len(old))

\* an invocation before its first step
Starting(key, value) ==
  [pc |-> "load", key |-> key, value |-> value, saw |-> ZeroConfig,
   data |-> <<>>, err |-> <<>>]

\* Set up to the return of Load
RaceLoad(p) ==
  LET l == Load(FALSE)
      c == SetField(l.cfg, procs[p].key, procs[p].value)
  IN /\ procs[p].pc = "load"
     /\ procs' = [procs EXCEPT ![p] =
          IF l.err # <<>>
          THEN [@ EXCEPT !.pc = "done",
                         !.err = Wrap("could not load config file", l.err)]
          ELSE [@ EXCEPT !.pc = "mkdir", !.saw = l.cfg, !.data = MarshalIndent(c)]]
     /\ UNCHANGED <<cfgVars, perm, apiVars>>

\* Save: os.MkdirAll
RaceMkdir(p) ==
  /\ procs[p].pc = "mkdir"
  /\ dir' = TRUE
  /\ perm' = ModesAfter(TRUE, file)
  /\ procs' = [procs EXCEPT ![p].pc = "open"]
  /\ UNCHANGED <<home, envUrl, envKey, file, last, apiVars>>

\* Save: os.WriteFile opens the file, which makes it or empties it
RaceOpen(p) ==
  /\ procs[p].pc = "open"
  /\ file' = FileOf(<<>>)
  /\ perm' = ModesAfter(dir, FileOf(<<>>))
  /\ procs' = [procs EXCEPT ![p].pc = "write"]
  /\ UNCHANGED <<home, envUrl, envKey, dir, last, apiVars>>

\* Save: os.WriteFile writes the data and Set returns
RaceWrite(p) ==
  /\ procs[p].pc = "write"
  /\ file' = FileOf(WriteAt0(file.data, procs[p].data))
  /\ procs' = [procs EXCEPT ![p].pc = "done"]
  /\ UNCHANGED <<home, envUrl, envKey, dir, last, perm, apiVars>>

\* the values the two invocations set
RaceValues == {<<>>, <<"a">>, <<DQ>>}

\* two invocations of config set <key> <value> start on a store with or
\* without a config file
InitRace ==
  /\ home = TRUE /\ envUrl = <<>> /\ envKey = <<>>
  /\ last = NoCall
  /\ \/ /\ dir = FALSE /\ file = NoFile
        /\ perm = [umask |-> Umask022, dir |-> {}, file |-> {}]
     \/ /\ dir = TRUE
        /\ file = FileOf(MarshalIndent([ApiURL |-> <<"a">>, ApiKey |-> <<"a">>]))
        /\ perm = [umask |-> Umask022, dir |-> Mode0755, file |-> Mode0644]
  /\ procs \in [Procs -> {Starting(k, v) : k \in {"api-url", "api-key"},
                                           v \in RaceValues}]
  /\ client = NoClient
  /\ sent = <<>>
  /\ resp = NoResp
  /\ ret = NoRet

NextRace == \E p \in Procs : RaceLoad(p) \/ RaceMkdir(p) \/ RaceOpen(p) \/ RaceWrite(p)

SpecRace == InitRace /\ [][NextRace]_vars

\* the client alone, with the configuration store as it starts
InitClient ==
  /\ home = TRUE /\ envUrl = <<>> /\ envKey = <<>>
  /\ dir = FALSE /\ file = NoFile /\ last = NoCall
  /\ perm = [umask |-> Umask022, dir |-> {}, file |-> {}]
  /\ procs = NoProcs
  /\ client = NoClient
  /\ sent = <<>>
  /\ resp = NoResp
  /\ ret = NoRet

NextClient == NewClient \/ Invoke \/ Respond

SpecClient == InitClient /\ [][NextClient]_vars

NextExecutor == NewClient \/ DoRequest

\* the request executor alone, called with any body
SpecExecutor == InitClient /\ [][NextExecutor]_vars

InitConfig ==
  /\ \E e \in Envs : home = e.home /\ envUrl = e.url /\ envKey = e.key
  /\ \/ dir \in BOOLEAN /\ file = NoFile
     \/ dir = TRUE /\ file \in {FileOf(d) : d \in FoundFiles}
  /\ last = NoCall

Init ==
  /\ InitConfig
  /\ perm = [umask |-> Umask022, dir |-> IF dir THEN Mode0755 ELSE {},
             file |-> IF file.exists THEN Mode0644 ELSE {}]
  /\ procs = NoProcs
  /\ client = NoClient
  /\ sent = <<>>
  /\ resp = NoResp
  /\ ret = NoRet

Next == DoLoad \/ DoSave \/ DoSet \/ DoGet \/ NewEnv

\* the permission bits of a directory and of a file that are found on disk,
\* made by somebody else: 0700, and 0600 or 0664
FoundDirModes == {Mode0755 \ Umask077}
FoundFileModes == {Mode0600, Mode0644 \cup {"gw"}}

\* the store with a known home directory, under either umask, with or
\* without a directory and a file that are already there
InitPerm ==
  /\ home = TRUE /\ envUrl = <<>> /\ envKey = <<>>
  /\ last = NoCall
  /\ \E um \in {Umask022, Umask077}, dm \in FoundDirModes, fm \in FoundFileModes :
       \/ /\ dir = FALSE /\ file = NoFile
          /\ perm = [umask |-> um, dir |-> {}, file |-> {}]
       \/ /\ dir = TRUE /\ file = NoFile
          /\ perm = [umask |-> um, dir |-> dm, file |-> {}]
       \/ /\ dir = TRUE
          /\ file = FileOf(MarshalIndent([ApiURL |-> <<"a">>, ApiKey |-> <<"a">>]))
          /\ perm = [umask |-> um, dir |-> dm, file |-> fm]
  /\ procs = NoProcs
  /\ client = NoClient
  /\ sent = <<>>
  /\ resp = NoResp
  /\ ret = NoRet

NextPerm == DoSave \/ DoSet

\* Save and Set with the permission bits of what they create
SpecPerm == InitPerm /\ [][NextPerm]_vars

(***************************************************************************)
(* cmd: the images and keys commands.  The program is started with one     *)
(* command line and runs from the first line of the command to its return  *)
(* or to HTTPClient.Do, and from the answer of the transport to its end.   *)
(* procs[1] is the invocation: the command line, where it stands, what     *)
(* config.Get returned to it and what it printed.                          *)
(***************************************************************************)
\* the id argument as typed
IdArgs == {<<>>, <<"x">>, <<"0">>, <<"5">>, <<"-", "1">>, <<"1", "1">>}
\* what is typed at the confirmation prompt: "nl" is the line feed
Stdins ==
  { <<>>, <<"nl">>,
    <<"y", "e", "s", "nl">>, <<"y", "e", "s">>, <<"Y", "E", "S", "nl">>,
    <<" ", "Y", "e", "s", " ", "cr", "nl">>,
    <<"y", "nl">>, <<"n", "o", "nl">>, <<"y", "e", "s", " ", "y", "nl">>,
    <<"y", " ", "e", "s", "nl">>, <<"n", "o", "nl", "y", "e", "s", "nl">> }
\* the species and key names typed
CmdTexts == {<<>>, <<"a">>}

Commands ==
  {[name |-> "images list", text |-> <<>>, arg |-> <<>>, stdin |-> <<>>]}
    \cup {[name |-> "images get", text |-> <<>>, arg |-> a, stdin |-> <<>>] :
            a \in IdArgs}
    \cup {[name |-> "images search", text |-> t, arg |-> a, stdin |-> <<>>] :
            t \in CmdTexts, a \in IdArgs}
    \cup {[name |-> "keys list", text |-> <<>>, arg |-> <<>>, stdin |-> <<>>]}
    \cup {[name |-> "keys generate", text |-> t, arg |-> <<>>, stdin |-> <<>>] :
            t \in CmdTexts}
    \cup {[name |-> "keys revoke", text |-> <<>>, arg |-> <<>>, stdin |-> i] :
            i \in Stdins}

\* the value of the digits of s from position i on, given the value n of
\* the digits before
RECURSIVE DigitsValue(_, _, _)
DigitsValue(s, i, n) ==
  IF i > Len(s) THEN n ELSE DigitsValue(s, i + 1, 10 * n + DigitValue(s[i]))

\* strconv.Atoi: a sign, if any, and digits
Atoi(s) ==
  LET signed == s # <<>> /\ s[1] \in {"-", "+"}
      d == IF signed THEN Tail(s) ELSE s
  IN IF d = <<>> \/ \E i \in 1..Len(d) : d[i] \notin DigitChars
     THEN [ok |-> FALSE, n |-> 0]
     ELSE [ok |-> TRUE,
           n |-> IF signed /\ s[1] = "-" THEN 0 - DigitsValue(d, 1, 0)
                 ELSE DigitsValue(d, 1, 0)]

\* an earlier revision: the images commands do not look at the key
checkApiKeyAbsent(apiKey) == TRUE

\* checkApiKey: false, after the guidance is printed, for the empty key
checkApiKey(apiKey) == apiKey # <<>>

\* reader.ReadString('\n'): the input up to the first line feed, with it,
\* or all of it when there is none
RECURSIVE ReadString(_, _)
ReadString(in, i) ==
  IF i > Len(in) THEN in
  ELSE IF in[i] = "nl" THEN SubSeq(in, 1, i)
  ELSE ReadString(in, i + 1)

ToLowerChar(c) ==
  CASE c = "Y" -> "y" [] c = "E" -> "e" [] c = "S" -> "s"
    [] c = "N" -> "n" [] c = "O" -> "o" [] OTHER -> c
\* strings.ToLower
ToLower(str) == [i \in 1..Len(str) |-> ToLowerChar(str[i])]

Space == {" ", "nl", "cr", "tab"}
\* strings.TrimSpace
RECURSIVE TrimSpace(_)
TrimSpace(str) ==
  IF str = <<>> THEN str
  ELSE IF Head(str) \in Space THEN TrimSpace(Tail(str))
  ELSE IF str[Len(str)] \in Space THEN TrimSpace(SubSeq(str, 1, Len(str) - 1))
  ELSE str

\* a bug: an answer that starts with y confirms
ConfirmedByLetter(in) ==
  LET response == TrimSpace(ToLower(ReadString(in, 1)))
  IN response # <<>> /\ response[1] = "y"

\* revokeKey: whether the line read at the prompt confirms
Confirmed(in) == TrimSpace(ToLower(ReadString(in, 1))) = <<"y", "e", "s">>

\* the accessor call a command makes
AccessorOf(cmd, id) ==
  CASE cmd.name = "images list" -> [name |-> "ListImages", text |-> <<>>, id |-> 0]
    [] cmd.name = "images get" -> [name |-> "GetImage", text |-> <<>>, id |-> id]
    [] cmd.name = "images search" ->
         [name |-> "SearchImages", text |-> cmd.text, id |-> id]
    [] cmd.name = "keys list" -> [name |-> "ListKeys", text |-> <<>>, id |-> 0]
    [] cmd.name = "keys generate" ->
         [name |-> "GenerateKey", text |-> cmd.text, id |-> 0]
    [] cmd.name = "keys revoke" -> [name |-> "RevokeKey", text |-> <<>>, id |-> 0]

\* what the commands print
InvalidIdLine == <<"invalid ID">>
GuidanceLines == <<"Error: No API key configured.",
                   "To get started, generate an API key:",
                   "  naturedopes-cli keys generate <name>">>
NoKeyLine == <<"Error: No API key configured. Use 'config set api-key <key>' first.">>
PromptLine == <<"Are you sure (yes/no): ">>
CancelledLine == <<"Revoke cancelled">>

\* a command from its first line on, given what its two calls of
\* config.Get return (u for api-url, k for api-key; their errors are
\* dropped): whether it returns before it builds a client (stop), what it
\* has printed, the base URL and the key it holds and whether one of the
\* calls failed
Run(cmd, u, k) ==
  LET id == Atoi(cmd.arg)
      images == cmd.name \in {"images list", "images get", "images search"}
      got == [stop |-> FALSE, out |-> <<>>, baseUrl |-> u.ret, key |-> k.ret,
              getErr |-> (u.err # <<>> \/ k.err # <<>>),
              call |-> AccessorOf(cmd, id.n)]
  IN IF cmd.name \in {"images get", "images search"} /\ ~id.ok
     THEN [stop |-> TRUE, out |-> InvalidIdLine, baseUrl |-> <<>>, key |-> <<>>,
           getErr |-> FALSE, call |-> NoCallYet]
     ELSE IF images /\ ~checkApiKey(k.ret)
     THEN [got EXCEPT !.stop = TRUE, !.out = GuidanceLines, !.call = NoCallYet]
     ELSE IF cmd.name = "keys revoke" /\ k.ret = <<>>
     THEN [got EXCEPT !.stop = TRUE, !.out = NoKeyLine, !.call = NoCallYet]
     ELSE IF cmd.name = "keys revoke" /\ ~Confirmed(cmd.stdin)
     THEN [got EXCEPT !.stop = TRUE, !.out = PromptLine \o CancelledLine,
                      !.call = NoCallYet]
     ELSE IF cmd.name = "keys revoke" THEN [got EXCEPT !.out = PromptLine]
     ELSE got

NoCommand == [cmd |-> [name |-> "none", text |-> <<>>, arg |-> <<>>, stdin |-> <<>>],
              stage |-> "idle", out |-> <<>>, baseUrl |-> <<>>, key |-> <<>>,
              getErr |-> FALSE]

\* an invocation of a command runs to its return or to HTTPClient.Do
RunCommand ==
  \E cmd \in Commands, rd1 \in ReadFaults, rd2 \in ReadFaults :
  \E u \in {Get("api-url", rd1)}, k \in {Get("api-key", rd2)} :
  \E r \in {Run(cmd, u, k)} :
    LET c == [BaseUrl |-> r.baseUrl, APIKey |-> r.key]
        a == ArgsOf(r.call)
        me == [cmd |-> cmd, stage |-> "done", out |-> r.out,
               baseUrl |-> r.baseUrl, key |-> r.key, getErr |-> r.getErr]
    IN /\ procs[1].stage = "idle"
       /\ resp' = NoResp
       /\ IF r.stop
          THEN /\ procs' = <<me>>
               /\ client' = NoClient
               /\ sent' = <<>>
               /\ ret' = NoRet
          ELSE /\ client' = c
               /\ IF BadURL(c.BaseUrl \o a.path)
                  THEN LET x == [err |-> <<"could not create http request err", "parse">>,
                                 body |-> <<>>]
                           f == Finish(r.call, x)
                       IN /\ sent' = <<>>
                          /\ ret' = [call |-> r.call, stage |-> "done", exec |-> x,
                                     err |-> f.err, data |-> <<>>]
                          /\ procs' = <<[me EXCEPT !.out = r.out \o <<"error">> \o f.err]>>
                  ELSE /\ sent' = <<Request(c, a.method, a.path, a.body)>>
                       /\ ret' = [call |-> r.call, stage |-> "waiting", exec |-> NoExec,
                                  err |-> <<>>, data |-> <<>>]
                       /\ procs' = <<[me EXCEPT !.stage = "waiting"]>>
       /\ UNCHANGED <<cfgVars, perm>>

\* the Key field of an element of the response of ListKeys
ItemKey(item) == IF item = "keyobj" THEN LongKey ELSE <<>>

\* listKeys: the lines printed for the keys from position i on, and whether
\* the slice expression k.Key[:8] panics, which ends the program
RECURSIVE KeyLines(_, _, _)
KeyLines(items, i, acc) ==
  IF i > Len(items) THEN [panic |-> FALSE, out |-> acc]
  ELSE IF Len(ItemKey(items[i])) < 8 THEN [panic |-> TRUE, out |-> acc]
  ELSE KeyLines(items, i + 1,
                 acc \o <<"key: ">> \o Prefix(ItemKey(items[i]), 8) \o <<"...">>)

\* http.Client.Do fails on a URL without a scheme before it sends anything
NoScheme(url) == url = <<>> \/ url[1] \notin {GoodBase[1], LOCALHOST[1]}

\* what the transport answers to a command
CmdOutcomes ==
  {[kind |-> "neterr", status |-> 0, body |-> <<>>],
   [kind |-> "resp", status |-> 404, body |-> <<"not found">>]}
    \cup {[kind |-> "resp", status |-> 200, body |-> b] :
            b \in {<<>>, <<"[", "]">>, <<"[", "keyobj", "]">>, <<"[", "obj", "]">>,
                   <<"[", "keyobj", ",", "obj", "]">>, <<"obj">>, <<"keyobj">>}}

\* HTTPClient.Do returns, the accessor returns and the command prints
CmdRespond ==
  /\ procs[1].stage = "waiting"
  /\ ret.stage = "waiting"
  /\ \E out \in IF NoScheme(client.BaseUrl)
                THEN {o \in CmdOutcomes : o.kind = "neterr"} ELSE CmdOutcomes :
     \E r \in {Classify(out)} :
     \E f \in {Finish(ret.call, r)} :
       LET me == procs[1]
           pk == KeyLines(f.data, 1, <<>>)
       IN /\ resp' = out
          /\ ret' = [ret EXCEPT !.stage = "done", !.exec = r, !.err = f.err,
                                !.data = f.data]
          /\ procs' =
               IF f.err # <<>>
               THEN <<[me EXCEPT !.stage = "done",
                                 !.out = me.out \o <<"error">> \o f.err]>>
               ELSE IF me.cmd.name = "keys list"
               THEN <<[me EXCEPT !.stage = IF pk.panic THEN "panic" ELSE "done",
                                 !.out = me.out \o pk.out]>>
               ELSE <<[me EXCEPT !.stage = "done", !.out = me.out \o <<"result">>]>>
          /\ UNCHANGED <<client, sent>>
          /\ UNCHANGED <<cfgVars, perm>>

\* the config files the commands find
CmdFiles ==
  { <<"a">>,
    MarshalIndent([ApiURL |-> GoodBase, ApiKey |-> <<"k">>]),
    MarshalIndent([ApiURL |-> GoodBase, ApiKey |-> <<>>]),
    MarshalIndent([ApiURL |-> BadBase, ApiKey |-> <<"k">>]),
    MarshalIndent([ApiURL |-> <<"a">>, ApiKey |-> <<"a">>]) }

InitCmd ==
  /\ \E e \in Envs : home = e.home /\ envUrl = e.url /\ envKey = e.key
  /\ \/ dir \in BOOLEAN /\ file = NoFile
     \/ dir = TRUE /\ file \in {FileOf(d) : d \in CmdFiles}
  /\ last = NoCall
  /\ perm = [umask |-> Umask022, dir |-> IF dir THEN Mode0755 ELSE {},
             file |-> IF file.exists THEN Mode0644 ELSE {}]
  /\ procs = <<NoCommand>>
  /\ client = NoClient
  /\ sent = <<>>
  /\ resp = NoResp
  /\ ret = NoRet

NextCmd == RunCommand \/ CmdRespond

SpecCmd == InitCmd /\ [][NextCmd]_vars

(***************************************************************************)
(* One process that calls Set and Get again and again, with no I/O         *)
(* failure, while its environment changes.  procs[1] remembers what the    *)
(* process did: whether a Set succeeded, the Config that Load produced in  *)
(* the first Set that succeeded, and the last value set for each key.      *)
(***************************************************************************)
FieldKeys == {"api-url", "api-key"}

NoSession == [started |-> FALSE, first |-> ZeroConfig,
              set |-> [k \in FieldKeys |-> NilString]]

\* the values the process sets
SessionValues == {<<>>, <<"a">>, <<XFF>>}

\* a call of Set by the process
SessionSet ==
  \E key \in FieldKeys, value \in SessionValues :
    LET l == Load(FALSE)
        r == Set(key, value, FALSE, "none")
        me == procs[1]
    IN /\ dir' = r.dir
       /\ file' = r.file
       /\ last' = Call("Set", key, value, ZeroConfig, r.err, <<>>, ZeroConfig)
       /\ perm' = ModesAfter(r.dir, r.file)
       /\ procs' = IF r.err # <<>> THEN procs
                   ELSE <<[started |-> TRUE,
                           first |-> IF me.started THEN me.first ELSE l.cfg,
                           set |-> [me.set EXCEPT ![key] = StringPtr(value)]]>>
       /\ UNCHANGED <<home, envUrl, envKey>>
       /\ UNCHANGED apiVars

\* a call of Get by the process
SessionGet ==
  \E key \in FieldKeys :
    LET r == Get(key, FALSE)
    IN /\ dir' = r.dir
       /\ file' = r.file
       /\ last' = Call("Get", key, <<>>, ZeroConfig, r.err, r.ret, ZeroConfig)
       /\ perm' = ModesAfter(r.dir, r.file)
       /\ UNCHANGED <<home, envUrl, envKey>>
       /\ UNCHANGED <<apiVars, procs>>

InitSession ==
  /\ InitConfig
  /\ perm = [umask |-> Umask022, dir |-> IF dir THEN Mode0755 ELSE {},
             file |-> IF file.exists THEN Mode0644 ELSE {}]
  /\ procs = <<NoSession>>
  /\ client = NoClient
  /\ sent = <<>>
  /\ resp = NoResp
  /\ ret = NoRet

NextSession == SessionSet \/ SessionGet \/ NewEnv

SpecSession == InitSession /\ [][NextSession]_vars

\* the configuration store alone
Spec == Init /\ [][Next]_vars

(***************************************************************************)
(* Properties of the configuration store.                                  *)
(***************************************************************************)
\* the Config an existing file holds, as json.Unmarshal reads it
Persisted(f) == Unmarshal(f.data).cfg

\* the error of a Load whose os.ReadFile failed
ReadError == <<"couldn't read file">>
\* the error of Get and Set for a key that is neither api-url nor api-key
InvalidKey(key) == <<"invalid key", key>>

\* a Load that follows a successful Save of a Config with a non-empty
\* ApiURL and that could read the file
LoadAfterSave ==
  /\ last.op = "Save"
  /\ last.err = <<>>
  /\ last.arg.ApiURL # <<>>
  /\ last'.op = "Load"
  /\ last'.err # ReadError

\* C1 as stated: a successful Save of any Config with a non-empty ApiURL,
\* followed by Load, returns a Config with the same ApiURL and ApiKey.
C1_RoundTripAnyConfig ==
  [][LoadAfterSave => (last'.err = <<>> /\ last'.cfg = last.arg)]_vars

\* C1 as amended: a successful Save of a Config with a non-empty ApiURL,
\* followed by Load, returns the Config with every byte that is not valid
\* UTF-8 replaced by U+FFFD, hence the same ApiURL and ApiKey whenever
\* both are valid UTF-8.
C1_RoundTripValidUTF8 ==
  [][LoadAfterSave =>
       /\ last'.err = <<>>
       /\ last'.cfg = [ApiURL |-> ToValidUTF8(last.arg.ApiURL),
                       ApiKey |-> ToValidUTF8(last.arg.ApiKey)]
       /\ (ValidUTF8(last.arg.ApiURL) /\ ValidUTF8(last.arg.ApiKey)
             => last'.cfg = last.arg)]_vars

\* a Load right after a successful Save returned a Config whose key holds
\* a character that JSON escapes
C1_Witness ==
  /\ last.op = "Load"
  /\ last.after = "save"
  /\ last.err = <<>>
  /\ last.cfg = [ApiURL |-> <<"a">>, ApiKey |-> <<DQ>>]

\* C2: with no config file (and a known home directory, so that the path
\* exists), Load succeeds and returns ApiURL = API_URL if that is not
\* empty, else "http://localhost:8080", and ApiKey = API_KEY, else "".
C2_DefaultOnMissingFile ==
  (last.op = "Load" /\ ~file.exists /\ home) =>
    /\ last.err = <<>>
    /\ last.cfg.ApiURL = (IF envUrl # <<>> THEN envUrl ELSE LOCALHOST)
    /\ last.cfg.ApiKey = envKey

\* Load returned the localhost default and the API_KEY of the environment
C2_Witness ==
  /\ last.op = "Load"
  /\ ~file.exists
  /\ envUrl = <<>>
  /\ envKey = <<"a">>
  /\ last.cfg = [ApiURL |-> LOCALHOST, ApiKey |-> <<"a">>]

\* C3: Load and Get leave the config file and its directory as they were,
\* whatever the key and the file; the file changes in a Save or a Set only.
C3_LoadGetWriteNothing ==
  [][/\ last'.op \in {"Load", "Get"} => (file' = file /\ dir' = dir)
     /\ (file' # file \/ dir' # dir) => last'.op \in {"Save", "Set"}]_vars

\* Get returned the synthesized default and neither the file nor its
\* directory exists
C3_Witness ==
  /\ last.op = "Get"
  /\ last.key = "api-url"
  /\ last.err = <<>>
  /\ last.ret = LOCALHOST
  /\ ~file.exists
  /\ ~dir

\* a Get or a Set with a key that is neither api-url nor api-key
BogusCall == last'.op \in {"Get", "Set"} /\ last'.key \notin {"api-url", "api-key"}

\* C4 as stated: Get and Set with an unrecognized key fail with the
\* invalid-key error and leave the file as it was.
C4_InvalidKeyAlways ==
  [][BogusCall =>
       /\ last'.err = InvalidKey(last'.key)
       /\ file' = file
       /\ dir' = dir]_vars

\* C4 as amended: Get and Set with an unrecognized key fail and leave the
\* file as it was; the error is the invalid-key error whenever Load
\* succeeds, and the failure of Load otherwise.
C4_InvalidKeyAfterLoad ==
  [][BogusCall =>
       /\ last'.err # <<>>
       /\ file' = file
       /\ dir' = dir
       /\ \/ last'.err = InvalidKey(last'.key)
          \/ last'.err = Wrap("could not load config file", ReadError)
          \/ /\ Load(FALSE).err # <<>>
             /\ last'.err = Wrap("could not load config file", Load(FALSE).err)
       /\ (Load(FALSE).err # <<>> => last'.err # InvalidKey(last'.key))]_vars

\* Set with an unrecognized key returned the invalid-key error and there
\* is still no file
C4_Witness ==
  /\ last.op = "Set"
  /\ last.key = "bogus"
  /\ last.err = InvalidKey("bogus")
  /\ ~file.exists
  /\ ~dir

\* a Set of the given key that succeeded
SetDone(key) == last'.op = "Set" /\ last'.key = key /\ last'.err = <<>>

\* C5 as stated: after a successful Set of one key the persisted value of
\* the other field equals the one Load returned just before the call.
C5_OtherFieldEqual ==
  [][/\ SetDone("api-key") => Persisted(file').ApiURL = Load(FALSE).cfg.ApiURL
     /\ SetDone("api-url") => Persisted(file').ApiKey = Load(FALSE).cfg.ApiKey]_vars

\* C5 as amended: after a successful Set of one key the file is the whole
\* two-field Config, and the persisted value of the other field is the one
\* Load returned just before the call with every byte that is not valid
\* UTF-8 replaced by U+FFFD: the same value whenever it is valid UTF-8.
C5_OtherFieldKept ==
  [][/\ SetDone("api-key") =>
          /\ file'.exists /\ Unmarshal(file'.data).err = "none"
          /\ Persisted(file').ApiURL = ToValidUTF8(Load(FALSE).cfg.ApiURL)
          /\ Persisted(file').ApiKey = ToValidUTF8(last'.value)
     /\ SetDone("api-url") =>
          /\ file'.exists /\ Unmarshal(file'.data).err = "none"
          /\ Persisted(file').ApiKey = ToValidUTF8(Load(FALSE).cfg.ApiKey)
          /\ Persisted(file').ApiURL = ToValidUTF8(last'.value)]_vars

\* a Set of api-key succeeded and the file holds the new key next to the
\* URL it held before
C5_Witness ==
  /\ last.op = "Set"
  /\ last.key = "api-key"
  /\ last.value = <<DQ>>
  /\ last.err = <<>>
  /\ file.exists
  /\ Persisted(file) = [ApiURL |-> <<"a">>, ApiKey |-> <<DQ>>]

\* C6: a successful Set(k, v) right after a successful Set(k, v) leaves
\* the persisted Config as the first one left it.
C6_SetIdempotent ==
  [][(/\ last.op = "Set" /\ last.err = <<>>
      /\ last'.op = "Set" /\ last'.err = <<>>
      /\ last'.key = last.key /\ last'.value = last.value)
       => (file'.exists /\ file.exists /\ Persisted(file') = Persisted(file))]_vars

\* the second of two successful Set calls with the same key and value
C6_Witness ==
  /\ last.op = "Set"
  /\ last.after = "same set"
  /\ last.err = <<>>
  /\ last.key = "api-url"
  /\ last.value = <<DQ>>

(***************************************************************************)
(* Properties of the client.                                               *)
(***************************************************************************)
\* the values of the header field name in a request
HeaderValues(req, name) == {h[2] : h \in {x \in req.header : x[1] = name}}

\* C7: every request handed to the transport carries X-API-Key equal to
\* the client's APIKey when that is not empty and no X-API-Key otherwise,
\* whatever the accessor and the method.
C7_AuthHeader ==
  \A i \in 1..Len(sent) :
    HeaderValues(sent[i], "X-API-Key")
      = (IF client.APIKey # <<>> THEN {client.APIKey} ELSE {})

\* RevokeKey sent its DELETE with the client's key in X-API-Key
C7_Witness ==
  /\ Len(sent) = 1
  /\ sent[1].method = "DELETE"
  /\ client.APIKey = <<"k">>
  /\ HeaderValues(sent[1], "X-API-Key") = {<<"k">>}

\* sub occurs in s as a run of consecutive characters
Contains(s, sub) ==
  \E i \in 0..(Len(s) - Len(sub)) :
    \A j \in 1..Len(sub) : s[i + j] = sub[j]

\* the last call ended on a response the transport delivered in full
Delivered == ret.stage = "done" /\ resp.kind = "resp"

\* C8: on a delivered response doRequest returns an error exactly when
\* the status is >= 400, the message of that error holds the status code
\* in decimal and the text of the body, and below 400 it returns the
\* body unchanged.
C8_StatusClassification ==
  Delivered =>
    /\ (ret.exec.err # <<>>) <=> (resp.status >= 400)
    /\ resp.status >= 400 =>
         /\ Contains(ret.exec.err, Itoa(resp.status))
         /\ Contains(ret.exec.err, resp.body)
         /\ ret.exec.body = <<>>
    /\ resp.status < 400 => ret.exec.body = resp.body

\* ListImages got 404 "not found" and returned an error and no images
C8_Witness ==
  /\ Delivered
  /\ ret.call.name = "ListImages"
  /\ resp.status = 404
  /\ resp.body = <<"not found">>
  /\ Contains(ret.err, <<"4", "0", "4">>)
  /\ Contains(ret.err, <<"not found">>)
  /\ ret.data = <<>>

\* C9 as stated: no accessor returns success for a response whose status
\* is outside 200..299.
C9_Non2xxFails ==
  (Delivered /\ (resp.status < 200 \/ resp.status > 299)) => ret.err # <<>>

\* C9 as amended: no accessor returns success for a response whose status
\* is >= 400, whatever the code; the error is the accessor's message in
\* front of the executor's error. A status below 400 is not a failure of
\* its own: RevokeKey succeeds on every one of them.
C9_From400Fails ==
  Delivered =>
    /\ resp.status >= 400 =>
         /\ ret.err = Wrap(ErrorOf(ret.call), ret.exec.err)
         /\ ret.exec.err # <<>>
         /\ ret.data = <<>>
    /\ (resp.status < 400 /\ ret.call.name = "RevokeKey") => ret.err = <<>>

\* ListKeys got 500 and returned an error
C9_Witness ==
  /\ Delivered
  /\ ret.call.name = "ListKeys"
  /\ resp.status = 500
  /\ ret.err # <<>>

\* the position of the first c in s from i on, Len(s) + 1 when there is none
RECURSIVE IndexFrom(_, _, _)
IndexFrom(s, c, i) ==
  IF i > Len(s) \/ s[i] = c THEN i ELSE IndexFrom(s, c, i + 1)

\* s cut at every sep
RECURSIVE Split(_, _)
Split(s, sep) ==
  LET k == IndexFrom(s, sep, 1)
  IN IF k > Len(s) THEN <<s>>
     ELSE <<SubSeq(s, 1, k - 1)>> \o Split(SubSeq(s, k + 1, Len(s)), sep)

\* url.QueryUnescape
RECURSIVE QueryUnescape(_)
QueryUnescape(s) ==
  IF s = <<>> THEN <<>>
  ELSE IF s[1] = "+" THEN <<" ">> \o QueryUnescape(Tail(s))
  ELSE IF s[1] = "%" /\ Len(s) >= 3
  THEN LET c == CASE <<s[2], s[3]>> = <<"2", "6">> -> "&"
                  [] <<s[2], s[3]>> = <<"3", "D">> -> "="
                  [] <<s[2], s[3]>> = <<"3", "F">> -> "?"
                  [] <<s[2], s[3]>> = <<"2", "B">> -> "+"
                  [] <<s[2], s[3]>> = <<"2", "5">> -> "%"
                  [] OTHER -> "invalid"
       IN <<c>> \o QueryUnescape(SubSeq(s, 4, Len(s)))
  ELSE <<s[1]>> \o QueryUnescape(Tail(s))

\* the parameters of a query string: the name and the raw value of each
QueryPairs(q) ==
  LET parts == Split(q, "&")
  IN [i \in 1..Len(parts) |->
        [name  |-> IF parts[i] = <<>> THEN "" ELSE parts[i][1],
         eq    |-> Len(parts[i]) >= 2 /\ parts[i][2] = "=",
         value |-> SubSeq(parts[i], 3, Len(parts[i]))]]

\* the path of the request of the last call
SentPath == SubSeq(sent[1].url, Len(client.BaseUrl) + 1, Len(sent[1].url))

Payload(req) == req.body.bytes

HasContentType(req) == HeaderValues(req, "Content-Type") # {}

BodyMembers(req) ==
  IF req.body.nil \/ req.body.bytes = <<>> \/ req.body.bytes[1] # "{" THEN BadMembers
  ELSE ParseMembers(req.body.bytes, 2, <<>>, TRUE)

\* C12: GenerateKey(name) sends one request, a POST to the base URL followed
\* by /api/keys whose body is the JSON object with the one member "name"
\* equal to name, with X-API-Key equal to the client's key when that is not
\* empty (nothing is sent when no request can be made of the URL); a
\* success response that holds a key of the service with last_used null
\* decodes to that key with LastUsed nil, without error.
C12_GenerateKey ==
  ret.call.name = "GenerateKey" =>
    /\ Len(sent) <= 1
    /\ (sent = <<>>) <=> BadURL(client.BaseUrl)
    /\ sent # <<>> =>
         /\ sent[1].method = "POST"
         /\ sent[1].url = client.BaseUrl \o <<"/api/keys">>
         /\ BodyMembers(sent[1]) =
              [ok |-> TRUE,
               mem |-> <<[key |-> <<"name">>, kind |-> "string",
                          val |-> ret.call.text]>>,
               next |-> Len(sent[1].body.bytes) + 1]
         /\ HeaderValues(sent[1], "X-API-Key")
              = (IF client.APIKey # <<>> THEN {client.APIKey} ELSE {})
    /\ \A k \in SentKeys :
         (/\ ret.stage = "done" /\ resp.kind = "resp"
          /\ resp.status \in 200..299
          /\ k.LastUsed.nil /\ resp.body = KeyJSON(k))
         => /\ ret.err = <<>>
            /\ ret.data = <<k>>
            /\ ret.data[1].LastUsed = NilString

\* GenerateKey of a name that JSON escapes, with a key, was answered 200
\* with a revoked key whose last_used is null
C12_Witness ==
  /\ ret.call.name = "GenerateKey" /\ ret.call.text = <<"&">>
  /\ ret.stage = "done"
  /\ client.APIKey = <<"k">>
  /\ resp.kind = "resp" /\ resp.status = 200
  /\ \E k \in SentKeys : k.Revoked /\ k.LastUsed.nil /\ resp.body = KeyJSON(k)
  /\ ret.err = <<>> /\ ret.data # <<>> /\ ret.data[1].ID = 12

\* the transport failed or the response has a status from 400 up
Failed(out) ==
  out.kind \in {"neterr", "readerr"} \/ (out.kind = "resp" /\ out.status >= 400)

\* C13: an accessor call hands at most one request to the transport; the
\* step that follows the request ends the call without another request, and
\* with an error when the transport failed or the status is 400 or above.
C13_NoRetries ==
  [][/\ Len(sent') <= 1
     /\ ret.stage = "waiting" =>
          /\ sent' = sent
          /\ ret'.stage = "done"
          /\ ret'.call = ret.call
          /\ Failed(resp') => ret'.err # <<>>]_vars

\* a call ended with an error after its one request failed in the transport
C13_Witness ==
  /\ ret.stage = "done" /\ ret.call.name = "ListKeys"
  /\ resp.kind = "neterr"
  /\ Len(sent) = 1
  /\ ret.err # <<>>

AccessorNames == {c.name : c \in Calls}

\* C14: when doRequest returns an error to an accessor, the accessor returns
\* an error made of its own message followed by the whole error of
\* doRequest, and no data; for a response with a status from 400 up the
\* code and the body text are in the accessor's error.
C14_ErrorPropagation ==
  (ret.stage = "done" /\ ret.call.name \in AccessorNames /\ ret.exec.err # <<>>) =>
    /\ ret.err # <<>>
    /\ ret.err[1] = ErrorOf(ret.call)
    /\ SubSeq(ret.err, 2, Len(ret.err)) = ret.exec.err
    /\ ret.data = <<>>
    /\ (resp.kind = "resp" /\ resp.status >= 400) =>
         /\ Contains(ret.err, Itoa(resp.status))
         /\ Contains(ret.err, resp.body)

\* GetKeyInfo was answered 404 with a text and returned an error that holds both
C14_Witness ==
  /\ ret.stage = "done" /\ ret.call.name = "GetKeyInfo"
  /\ resp.kind = "resp" /\ resp.status = 404 /\ resp.body = <<"not found">>
  /\ ret.exec.err # <<>>
  /\ Contains(ret.err, <<"4", "0", "4">>) /\ Contains(ret.err, <<"not found">>)
  /\ ret.data = <<>>

(***************************************************************************)
(* More properties of the configuration store.                             *)
(***************************************************************************)
\* the error of a Load that could not decode the file
DecodeError == <<"couldn't unmarshal JSON">>

\* there is a config file and its content is not valid JSON for Config
Undecodable == file.exists /\ Unmarshal(file.data).err # "none"

\* C15: with a config file whose content is not valid JSON for Config and a
\* known home directory, Load fails, with the decode error when the file
\* could be read; Get and Set with a recognized key fail with that failure
\* of Load wrapped, and the file and the directory are as they were.
C15_DecodeFailure ==
  [][(Undecodable /\ home /\ last' # last /\ last'.op \in {"Load", "Get", "Set"}) =>
       /\ last'.op = "Load" => last'.err \in {DecodeError, ReadError}
       /\ (last'.op \in {"Get", "Set"} /\ last'.key \in {"api-url", "api-key"}) =>
            last'.err \in {Wrap("could not load config file", DecodeError),
                           Wrap("could not load config file", ReadError)}
       /\ Load(FALSE).err = DecodeError
       /\ file' = file
       /\ dir' = dir]_vars

\* Set of a recognized key failed with the decode error on a file whose
\* api_url is a number, and the file is still there
C15_Witness ==
  /\ last.op = "Set" /\ last.key = "api-key"
  /\ last.err = Wrap("could not load config file", DecodeError)
  /\ file.exists /\ Unmarshal(file.data).err = "type"

\* the bits of the group and of the others
GroupOther == {"gr", "gw", "gx", "or", "ow", "ox"}

\* C17 as stated: the file a Save or a Set creates can be read and written
\* by its owner and by nobody else, and the directory it creates has rwx
\* for the owner and rx for the group and the others
C17_OwnerOnlyFile ==
  [][/\ (~file.exists /\ file'.exists) =>
          (perm'.file = Mode0600 /\ perm'.file \cap GroupOther = {})
     /\ (~dir /\ dir') => perm'.dir = Mode0755]_vars

\* C17 as amended: the file is created with the bits of 0644 less the
\* umask (read and write for the owner, at most read for the group and the
\* others), the directory with the bits of 0755 less the umask, and a file
\* or a directory that is already there keeps its bits
C17_CreateModes ==
  [][/\ (~file.exists /\ file'.exists) => perm'.file = Mode0644 \ perm.umask
     /\ (~dir /\ dir') => perm'.dir = Mode0755 \ perm.umask
     /\ file.exists => perm'.file = perm.file
     /\ dir => perm'.dir = perm.dir
     /\ perm'.file \subseteq perm.file \cup Mode0644]_vars

\* a Save made the directory and the file under umask 022: the file can be
\* read by the group and the others
C17_Witness ==
  /\ last.op = "Save" /\ last.err = <<>>
  /\ perm.umask = Umask022
  /\ file.exists /\ perm.file = Mode0644 /\ "or" \in perm.file
  /\ dir /\ perm.dir = Mode0755

(***************************************************************************)
(* Properties of two invocations at the same time.                         *)
(***************************************************************************)
\* both invocations returned, and without error
BothDone == \A p \in Procs : procs[p].pc = "done"
BothSucceeded == BothDone /\ \A p \in Procs : procs[p].err = <<>>

\* C16: once two invocations that ran at the same time have both returned
\* without error, the file holds the complete serialized Config that one of
\* the two wrote, never a mixture of the bytes of both.
C16_LastWriterWins ==
  BothSucceeded => \E p \in Procs : file.data = procs[p].data

\* the field of a Config that a key names
FieldOfKey(cfg, key) == IF key = "api-url" THEN cfg.ApiURL ELSE cfg.ApiKey

\* the two invocations set different keys and loaded the same Config
SameLoad ==
  /\ procs[1].key # procs[2].key
  /\ procs[1].saw = procs[2].saw

\* C20: when two invocations on different keys loaded the same Config and
\* both returned without error, a file that holds what one of them wrote
\* holds that one's new value and, for the other key, the value that was
\* loaded: the update of the other invocation is not in the file.
C20_LostUpdate ==
  (BothSucceeded /\ SameLoad) =>
    \A p \in Procs :
      file.data = procs[p].data =>
        /\ FieldOfKey(Persisted(file), procs[p].key) = procs[p].value
        /\ FieldOfKey(Persisted(file), procs[Other(p)].key)
             = FieldOfKey(procs[p].saw, procs[Other(p)].key)

\* both invocations returned without error after loading the file that was
\* there, the first set api-url and the second api-key to new values, and
\* the file holds the new api_key with the old api_url
C20_Witness ==
  /\ BothSucceeded /\ SameLoad
  /\ procs[1].key = "api-url" /\ procs[1].value = <<>>
  /\ procs[2].key = "api-key" /\ procs[2].value = <<DQ>>
  /\ procs[1].saw = [ApiURL |-> <<"a">>, ApiKey |-> <<"a">>]
  /\ file.data = procs[2].data
  /\ Persisted(file) = [ApiURL |-> <<"a">>, ApiKey |-> <<DQ>>]

(***************************************************************************)
(* More properties of the client.                                          *)
(***************************************************************************)
\* C18: no step of an accessor call changes the BaseUrl or the APIKey of
\* the client, and the request of every call goes to the client's BaseUrl
\* with the client's key.
C18_ClientImmutable ==
  [][ret'.stage # "idle" =>
       /\ client' = client
       /\ sent' # <<>> =>
            /\ Prefix(sent'[1].url, Len(client.BaseUrl)) = client.BaseUrl
            /\ HeaderValues(sent'[1], "X-API-Key")
                 = (IF client.APIKey # <<>> THEN {client.APIKey} ELSE {})]_vars

\* a call of a client with a key failed with 404 and the client still has
\* its base URL and its key
C18_Witness ==
  /\ ret.stage = "done" /\ ret.err # <<>>
  /\ resp.kind = "resp" /\ resp.status = 404
  /\ client = [BaseUrl |-> GoodBase, APIKey |-> <<"k">>]
  /\ sent # <<>> /\ HeaderValues(sent[1], "X-API-Key") = {<<"k">>}

\* C19: RevokeKey sends one DELETE to the base URL followed by /api/keys,
\* without body and without Content-Type; it returns no error for every
\* response with a status below 400, whatever the body, and otherwise its
\* message in front of the error of doRequest.
C19_RevokeKey ==
  ret.call.name = "RevokeKey" =>
    /\ Len(sent) <= 1
    /\ sent # <<>> =>
         /\ sent[1].method = "DELETE"
         /\ sent[1].url = client.BaseUrl \o <<"/api/keys">>
         /\ sent[1].body = NilBody
         /\ ~HasContentType(sent[1])
    /\ ret.stage = "done" =>
         /\ ret.data = <<>>
         /\ (resp.kind = "resp" /\ resp.status < 400) => ret.err = <<>>
         /\ ret.exec.err = <<>> => ret.err = <<>>
         /\ ret.exec.err # <<>> =>
              ret.err = Wrap("could not delete api-key", ret.exec.err)

\* RevokeKey returned no error on a 200 whose body is not JSON
C19_Witness ==
  /\ ret.call.name = "RevokeKey" /\ ret.stage = "done"
  /\ resp.kind = "resp" /\ resp.status = 200 /\ resp.body = <<"not found">>
  /\ Len(sent) = 1
  /\ ret.err = <<>>

(***************************************************************************)
(* Crashes, repeated calls and the commands.                               *)
(***************************************************************************)
SaveError == <<"could not write data to file">>

\* C21: Save writes the config file in place: a Save or a Set whose write
\* stops after the file was truncated leaves a file that is empty or holds
\* the first bytes of the data, and the next Load fails with the decode
\* error; it returns neither the old nor the new Config.
C21_SaveNotAtomic ==
  [][(last'.op \in {"Save", "Set"} /\ last'.err # <<>> /\ file' # file) =>
       /\ file'.exists
       /\ \/ file'.data = <<>>
          \/ \E c \in Configs :
               /\ Len(file'.data) < Len(MarshalIndent(c))
               /\ file'.data = Prefix(MarshalIndent(c), Len(file'.data))
       /\ Unmarshal(file'.data).err = "syntax"
       /\ Load(FALSE)'.err = DecodeError
       /\ Load(FALSE)'.cfg = ZeroConfig]_vars

\* a Set loaded a Config and its write stopped after TruncAt bytes: the file
\* that held a Config cannot be decoded
C21_Witness ==
  /\ last.op = "Set" /\ last.err = Wrap("could not save config file", SaveError)
  /\ file.exists /\ Len(file.data) = TruncAt
  /\ Load(FALSE).err = DecodeError

\* a Set loaded a Config and its write stopped before the first byte: the
\* file is empty
C21_WitnessEmpty ==
  /\ last.op = "Set" /\ last.err = Wrap("could not save config file", SaveError)
  /\ file = FileOf(<<>>)
  /\ Load(FALSE).err = DecodeError

\* what the process expects of Get(key): the value of its last Set of the
\* key or, for a key it never set, the value Load produced in its first Set
Expected(key) ==
  IF procs[1].set[key].nil THEN FieldOfKey(procs[1].first, key)
  ELSE procs[1].set[key].val

\* C22 as stated: after a Set of the process succeeded, a Get that succeeds
\* returns the value of the most recent Set of the key or, for a key never
\* set, the value Load produced in the first Set, byte for byte.
C22_GetReturnsSet ==
  (last.op = "Get" /\ last.err = <<>> /\ procs[1].started) =>
    last.ret = Expected(last.key)

\* C22: after a Set of the process succeeded, a Get that succeeds returns
\* the value of the most recent Set of the key or, for a key never set, the
\* value Load produced in the first Set, in both cases with every byte that
\* is not valid UTF-8 replaced by U+FFFD, whatever API_URL and API_KEY are
\* at the time of the Get.
C22_GetAfterSets ==
  (last.op = "Get" /\ last.err = <<>> /\ procs[1].started) =>
    last.ret = ToValidUTF8(Expected(last.key))

\* the process set api-key with no file under API_URL=a, the environment
\* changed, and Get("api-url") still returns a
C22_Witness ==
  /\ procs[1].started /\ procs[1].set["api-url"].nil
  /\ procs[1].first.ApiURL = <<"a">>
  /\ envUrl # <<"a">>
  /\ last.op = "Get" /\ last.key = "api-url" /\ last.err = <<>>
  /\ last.ret = <<"a">>

\* the command that was started
Cmd == procs[1].cmd
ImagesCommands == {"images list", "images get", "images search"}
\* the answer at the prompt as the specification reads it: the first line,
\* trimmed and then lower-cased, is yes
AnsweredYes == ToLower(TrimSpace(ReadString(Cmd.stdin, 1))) = <<"y", "e", "s">>
\* the api-key the configuration holds
ConfiguredKey == Get("api-key", FALSE).ret

\* C23: keys revoke hands a request to the transport only if the configured
\* api-key is not empty and the answer at the prompt, trimmed and
\* lower-cased, is yes, and the request is then one DELETE; with the empty
\* key or any other answer no accessor is called and nothing is sent; with
\* a key and the answer yes RevokeKey is called.
C23_RevokeGuard ==
  (Cmd.name = "keys revoke" /\ procs[1].stage # "idle") =>
    /\ sent # <<>> =>
         /\ ConfiguredKey # <<>>
         /\ AnsweredYes
         /\ Len(sent) = 1 /\ sent[1].method = "DELETE"
    /\ (procs[1].key = <<>> \/ ~AnsweredYes) =>
         /\ sent = <<>>
         /\ ret.call = NoCallYet
    /\ procs[1].key = <<>> => procs[1].out = NoKeyLine
    /\ (procs[1].key # <<>> /\ ~AnsweredYes) =>
         procs[1].out = PromptLine \o CancelledLine
    /\ (procs[1].key # <<>> /\ AnsweredYes) => ret.call.name = "RevokeKey"

\* with a key configured the answer " Yes " was typed and the DELETE sent
C23_Witness ==
  /\ Cmd.name = "keys revoke"
  /\ Cmd.stdin = <<" ", "Y", "e", "s", " ", "cr", "nl">>
  /\ procs[1].key = <<"k">>
  /\ Len(sent) = 1 /\ sent[1].method = "DELETE"
  /\ procs[1].stage = "done" /\ ret.err = <<>>

\* C24 as stated: an images command started with the empty api-key
\* configured prints the guidance and sends no request.
C24_GuidanceWhenNoKey ==
  (Cmd.name \in ImagesCommands /\ procs[1].stage # "idle" /\ ConfiguredKey = <<>>) =>
    /\ procs[1].out = GuidanceLines
    /\ sent = <<>>

\* C24: an images command hands a request to the transport only with a key
\* that is not empty; started with the empty api-key configured it sends
\* nothing and calls no accessor, and it prints the guidance unless its id
\* argument is not an integer: then it has printed the invalid-id error and
\* returned before it read the configuration.
C24_KeyChecked ==
  (Cmd.name \in ImagesCommands /\ procs[1].stage # "idle") =>
    /\ sent # <<>> => (ConfiguredKey # <<>> /\ procs[1].key # <<>>)
    /\ ConfiguredKey = <<>> =>
         /\ sent = <<>>
         /\ ret.call = NoCallYet
         /\ procs[1].out =
              IF Cmd.name = "images list" \/ Atoi(Cmd.arg).ok
              THEN GuidanceLines ELSE InvalidIdLine

\* images get 5 with no key configured printed the guidance and sent nothing
C24_Witness ==
  /\ Cmd.name = "images get" /\ Cmd.arg = <<"5">>
  /\ file.exists /\ ConfiguredKey = <<>> /\ ~procs[1].getErr
  /\ procs[1].stage = "done"
  /\ procs[1].out = GuidanceLines
  /\ sent = <<>>

\* C27 as stated: a command one of whose calls of config.Get failed calls
\* no accessor and hands no request to the transport.
C27_NoAccessorOnLoadFailure ==
  (procs[1].stage # "idle" /\ procs[1].getErr) =>
    /\ ret.call = NoCallYet
    /\ sent = <<>>

\* C29 as stated: keys list runs to its end whatever list of keys the
\* service returns.
C29_ListKeysCompletes ==
  Cmd.name = "keys list" => procs[1].stage # "panic"

\* C25: a Get or a Set with an unrecognized key returns the invalid-key
\* error only when Load succeeds; when Load fails (no home directory, a
\* file that cannot be read or decoded) it returns that failure of Load,
\* wrapped, and not the invalid-key error.
C25_LoadBeforeKey ==
  (last.op \in {"Get", "Set"} /\ last.key \notin FieldKeys) =>
    /\ last.err = InvalidKey(last.key) => Load(FALSE).err = <<>>
    /\ Load(FALSE).err # <<>> =>
         last.err \in {Wrap("could not load config file", Load(FALSE).err),
                       Wrap("could not load config file", ReadError)}
    /\ last.err # InvalidKey(last.key) =>
         /\ Len(last.err) = 2
         /\ last.err[1] = "could not load config file"
         /\ (Load(FALSE).err = <<>> => last.err[2] = ReadError[1])

\* Get with an unrecognized key and a file that is not valid JSON returned
\* the decode failure of Load
C25_Witness ==
  /\ last.op = "Get" /\ last.key = "bogus"
  /\ Undecodable
  /\ last.err = Wrap("could not load config file", DecodeError)

\* C26 as stated: a Load that runs while the other invocation is inside
\* Save does not fail with the decode error (the files the invocations
\* start from are valid, so a decode error comes from the write of the
\* other).
C26_ReaderNeverFails ==
  \A p \in Procs :
    procs[p].err # Wrap("could not load config file", DecodeError)

\* the config file that holds api_key alone
KeyOnlyFile == <<"{", DQ, "api_key", DQ, ":", DQ, "a", DQ, "}">>

\* the last call failed because the file could not be read
ReadFailed == last.err # <<>> /\ last.err[Len(last.err)] = ReadError[1]

\* C28: with a config file and a home directory, what Load and Get return
\* when the file can be read is fixed by the bytes of the file, whatever
\* API_URL and API_KEY are: the Config the file decodes to, or the decode
\* error; a field the file does not hold is returned as the empty string.
C28_FileOnly ==
  (file.exists /\ home /\ last.op \in {"Load", "Get"} /\ ~ReadFailed) =>
    /\ last.op = "Load" =>
         /\ last.err = (IF Unmarshal(file.data).err = "none" THEN <<>> ELSE DecodeError)
         /\ last.cfg = (IF last.err = <<>> THEN Persisted(file) ELSE ZeroConfig)
    /\ (last.op = "Get" /\ last.err = <<>>) =>
         last.ret = FieldOfKey(Persisted(file), last.key)
    /\ (last.op = "Get" /\ last.key \in FieldKeys) =>
         last.err = (IF Unmarshal(file.data).err = "none" THEN <<>>
                     ELSE Wrap("could not load config file", DecodeError))
    /\ file.data = KeyOnlyFile =>
         /\ last.op = "Load" => last.cfg = [ApiURL |-> <<>>, ApiKey |-> <<"a">>]
         /\ (last.op = "Get" /\ last.key = "api-url") => last.ret = <<>>
    /\ file.data = <<"{", "}">> =>
         /\ last.op = "Load" => last.cfg = ZeroConfig
         /\ (last.op = "Get" /\ last.key \in FieldKeys) => last.ret = <<>>

\* with API_URL set, Get("api-url") of a file that holds api_key alone
\* returned the empty string
C28_Witness ==
  /\ file = FileOf(KeyOnlyFile) /\ home
  /\ envUrl = <<"a">>
  /\ last.op = "Get" /\ last.key = "api-url" /\ last.err = <<>>
  /\ last.ret = <<>>

\* C30: every request an accessor hands to the transport has the method of
\* the accessor: DELETE for RevokeKey alone, POST for GenerateKey alone, GET
\* for ListImages, GetImage, SearchImages, ListKeys and GetKeyInfo.
C30_MethodPerAccessor ==
  \A i \in 1..Len(sent) :
    /\ sent[i].method \in {"GET", "POST", "DELETE"}
    /\ sent[i].method = "DELETE" <=> ret.call.name = "RevokeKey"
    /\ sent[i].method = "POST" <=> ret.call.name = "GenerateKey"
    /\ sent[i].method = "GET" <=>
         ret.call.name \in {"ListImages", "GetImage", "SearchImages", "ListKeys",
                            "GetKeyInfo"}

\* GetKeyInfo sent its body with a GET
C30_Witness ==
  /\ ret.call.name = "GetKeyInfo"
  /\ Len(sent) = 1 /\ sent[1].method = "GET" /\ ~sent[1].body.nil
  /\ ret.stage = "done"

====
